---- MODULE Spec2Model ----
(***************************************************************************)
(* A model of the query pipeline of intelligent-schema (src/app): the      *)
(* sliding-window rate limiter, the SQL validator, the schema snapshot     *)
(* single-flight (cache + extractor) and the staged request handler.       *)
(*                                                                         *)
(* Every subsystem has its own next-state relation and specification over  *)
(* the one set of variables; a specification leaves the variables of the   *)
(* other subsystems unchanged.                                             *)
(***************************************************************************)
EXTENDS Integers, Sequences, FiniteSets, TLC

None == "none"

Min(a, b) == IF a <= b THEN a ELSE b

(***************************************************************************)
(* Bounds of the model.                                                    *)
(***************************************************************************)
NumClients == 2
MaxCalls == 3
MaxClock == 62
MaxRequestsPerMinute == 2
MaxLimit == 3
MaxLimitLiteral == 5
NumRequests == 2
RefreshIntervalS == 60
MaxPoolSize == 2
SampleLimit == 2
RowThreshold == 20
CostThreshold == 10

Clients == 1..NumClients
Keys == {"u1", "anonymous"}
Reqs == 1..NumRequests

VARIABLES
    \* ---- rate limiter (src/app/rate_limiter.py)
    enableRateLimiting, \* SecurityConfig.enable_rate_limiting
    requests,           \* RateLimiter._requests: key -> deque of timestamps
    limLock,            \* RateLimiter._lock: the set of its holders (empty: free)
    clock,              \* time.time(), in seconds
    lpc,                \* per caller: position inside allow
    lkey,               \* per caller: the key argument
    lnow,               \* per caller: the local `now`
    lres,               \* per caller: what the last allow returned (with ghosts)
    admitted,           \* ghost: key -> every timestamp ever admitted
    lastCall,           \* ghost: key -> time.time() of the latest allow(key), or -1
    calls,              \* number of allow calls started
    \* ---- SQL validator (src/app/sql_validator.py)
    limitArg,           \* the installed sqlglot: the exp.Limit argument that holds the count
    vIn,                \* the SQL text handed to validate_and_sanitize (tokens)
    vRes,               \* what validate_and_sanitize returned or raised
    \* ---- schema snapshot: cache, extractor, pipeline (cache.py, schema_extractor.py,
    \*      pipeline.py)
    redisUp,            \* environment: the Redis server answers
    cacheUnavailable,   \* CacheClient._unavailable
    cacheRemote,        \* the remote store's entry under "schema_snapshot"
    cacheFallback,      \* CacheClient._fallback["schema_snapshot"]
    extSnapshot,        \* SchemaExtractor._snapshot (0: the empty dict)
    extTimestamp,       \* SchemaExtractor._timestamp (-1: None)
    extLock,            \* SchemaExtractor._lock: the set of its holders
    schemaLock,         \* QueryPipeline._schema_lock: the set of its holders
    rpc,                \* per request: position in its handler
    rrefresh,           \* per request: request.refresh_schema
    rsnap,              \* per request: the snapshot it received
    collectCount,       \* ghost: _collect calls started
    collectFailed,      \* ghost: _collect calls that raised
    expiries,           \* ghost: times the first staleness test found the snapshot aged out
    rcollects,          \* ghost, per request: _collect calls it started
    rown,               \* ghost, per request: the snapshot its own _collect returned
    \* ---- request handler (src/app/pipeline.py, api.py, observability.py, audit.py)
    counters,           \* REQUEST_COUNTER: status label -> count
    auditLog,           \* the lines of the audit log file, oldest first
    rq,                 \* per request: the locals of handle (with ghosts)
    poolOut,            \* Database._pool: the requests holding a connection of the pool
    handled,            \* number of requests run_query has started
    \* ---- cache client on its own (src/app/cache.py)
    ccRedis,            \* CacheClient._redis: None or the client object
    ccUnavailable,      \* CacheClient._unavailable
    ccFallback,         \* CacheClient._fallback: key -> value (Missing: no entry)
    ccStore,            \* the remote store: key -> entry
    ccLast,             \* the latest call on the client and how it ended (with ghosts)
    ccSet,              \* ghost: key -> value of the latest set_json(key, ...)
    ccSetLocal,         \* ghost: key -> value of the latest set_json(key, ...) that
                        \*        ended in the fallback map
    ccOps,              \* number of calls made on the client
    \* ---- schema slicer on its own (src/app/schema_selector.py)
    slIn,               \* the arguments of select_schema_slice
    slOut,              \* what select_schema_slice returned
    \* ---- reasoner on its own (src/app/llm_reasoner.py)
    rsIn,               \* the schema slice and the reply of the LLM
    rsOut,              \* what reason_schema_with_llm returned or raised
    \* ---- guardrails on their own (src/app/guardrails.py)
    grIn,               \* what EXPLAIN (FORMAT JSON) gives for the statement
    grOut,              \* what guardrail_check returned or raised
    \* ---- executor on its own (src/app/executor.py)
    exIn,               \* the rows of the statement, the time the fetch takes, timeout_s
    exOut,              \* what execute_sql returned or raised
    \* ---- LLM client on its own (src/app/llm_client.py)
    llIn,               \* the retry configuration, the caller and the library's exponent
    llRun,              \* the call of complete_json: attempts made, waits, outcome
    \* ---- SQL generator on its own (src/app/sql_generator.py)
    gnIn,               \* the reasoner output handed to generate
    gnOut               \* the statement generate returned, clause by clause

limVars == <<enableRateLimiting, requests, limLock, clock, lpc, lkey, lnow, lres,
             admitted, lastCall, calls>>

valVars == <<limitArg, vIn, vRes>>

schVars == <<redisUp, cacheUnavailable, cacheRemote, cacheFallback, extSnapshot, extTimestamp,
             extLock, schemaLock, rpc, rrefresh, rsnap, collectCount, collectFailed,
             expiries, rcollects, rown>>

\* the rate limiter's state without the clock, which the schema stages read too
limState == <<enableRateLimiting, requests, limLock, lpc, lkey, lnow, lres, admitted,
              lastCall, calls>>

pipVars == <<counters, auditLog, rq, poolOut, handled>>

cliVars == <<ccRedis, ccUnavailable, ccFallback, ccStore, ccLast, ccSet, ccSetLocal, ccOps>>

\* the state of the components that are exercised on their own
selVars == <<slIn, slOut>>

reaVars == <<rsIn, rsOut>>

grdVars == <<grIn, grOut>>

exeVars == <<exIn, exOut>>

llmVars == <<llIn, llRun>>

genVars == <<gnIn, gnOut>>

unitVars == <<cliVars, selVars, reaVars, grdVars, exeVars, llmVars, genVars>>

vars == <<limVars, valVars, schVars, pipVars, unitVars>>

(***************************************************************************)
(* Rate limiter: RateLimiter.allow, statement by statement.                *)
(***************************************************************************)
Window == 60

Ticks == {Window \div 2, (Window \div 2) + 1}

\* What a caller holds after allow returned: the verdict, and ghosts taken during the
\* call (seen: admitted timestamps of the key within the window ending at `now`;
\* gap: seconds since the previous allow of the key, -1 without one; held: the
\* deque's length when the lock was taken).
NoResult ==
    [done |-> FALSE, key |-> None, ok |-> FALSE, seen |-> 0, gap |-> -1, held |-> 0]

\* now - self._window
WindowStart(now) == now - Window

\* while queue and queue[0] < window_start: queue.popleft()
RECURSIVE Evict(_, _)
EvictNothing(queue, window_start) == queue
Evict(queue, window_start) ==
    IF queue # <<>> /\ Head(queue) < window_start
    THEN Evict(Tail(queue), window_start)
    ELSE queue

\* len(queue) >= self._cfg.max_requests_per_minute
AtLimitOffByOne(queue) == Len(queue) > MaxRequestsPerMinute
AtLimit(queue) == Len(queue) >= MaxRequestsPerMinute

\* an append at the wrong end of the deque
PushFront(queue, now) == <<now>> \o queue

\* queue.append(now)
Push(queue, now) == Append(queue, now)

\* async with self._lock: the lock is free
LockFree == limLock = {}

\* ghost: how many admitted calls for key k carry a timestamp in [now - Window, now]
AdmittedInWindow(k, now) ==
    Cardinality({i \in DOMAIN admitted[k] :
                    admitted[k][i] >= now - Window /\ admitted[k][i] <= now})

\* allow(key) is called; with rate limiting disabled it returns True at once
AllowCall(c, k) ==
    /\ lpc[c] = "idle"
    /\ calls < MaxCalls
    /\ calls' = calls + 1
    /\ lkey' = [lkey EXCEPT ![c] = k]
    /\ IF ~enableRateLimiting
       THEN /\ lres' = [lres EXCEPT ![c] = [done |-> TRUE, key |-> k, ok |-> TRUE,
                                            seen |-> 0, gap |-> -1, held |-> 0]]
            /\ lpc' = lpc
       ELSE /\ lres' = [lres EXCEPT ![c] = NoResult]
            /\ lpc' = [lpc EXCEPT ![c] = "acquire"]
    /\ UNCHANGED <<enableRateLimiting, requests, limLock, clock, lnow, admitted, lastCall>>

\* async with self._lock; now = time.time(); window_start = now - self._window
AllowAcquire(c) ==
    /\ lpc[c] = "acquire"
    /\ LockFree
    /\ limLock' = {c}
    /\ lnow' = [lnow EXCEPT ![c] = clock]
    /\ lres' = [lres EXCEPT ![c].gap =
                                IF lastCall[lkey[c]] < 0 THEN -1 ELSE clock - lastCall[lkey[c]],
                             ![c].held = Len(requests[lkey[c]])]
    /\ lastCall' = [lastCall EXCEPT ![lkey[c]] = clock]
    /\ lpc' = [lpc EXCEPT ![c] = "evict"]
    /\ UNCHANGED <<enableRateLimiting, requests, clock, lkey, admitted, calls>>

\* queue = self._requests[key]; the eviction loop
AllowEvict(c) ==
    /\ lpc[c] = "evict"
    /\ requests' = [requests EXCEPT ![lkey[c]] = Evict(@, WindowStart(lnow[c]))]
    /\ lpc' = [lpc EXCEPT ![c] = "check"]
    /\ UNCHANGED <<enableRateLimiting, limLock, clock, lkey, lnow, lres, admitted,
                   lastCall, calls>>

\* if len(queue) >= max_requests_per_minute: return False (the lock is released)
AllowCheck(c) ==
    /\ lpc[c] = "check"
    /\ IF AtLimit(requests[lkey[c]])
       THEN /\ lres' = [lres EXCEPT ![c] =
                          [done |-> TRUE, key |-> lkey[c], ok |-> FALSE,
                           seen |-> AdmittedInWindow(lkey[c], lnow[c]), gap |-> @.gap, held |-> @.held]]
            /\ limLock' = {}
            /\ lpc' = [lpc EXCEPT ![c] = "idle"]
       ELSE /\ lpc' = [lpc EXCEPT ![c] = "append"]
            /\ UNCHANGED <<lres, limLock>>
    /\ UNCHANGED <<enableRateLimiting, requests, clock, lkey, lnow, admitted, lastCall, calls>>

\* queue.append(now); return True (the lock is released)
AllowAppend(c) ==
    /\ lpc[c] = "append"
    /\ requests' = [requests EXCEPT ![lkey[c]] = Push(@, lnow[c])]
    /\ lres' = [lres EXCEPT ![c] =
                   [done |-> TRUE, key |-> lkey[c], ok |-> TRUE,
                    seen |-> AdmittedInWindow(lkey[c], lnow[c]), gap |-> @.gap, held |-> @.held]]
    /\ admitted' = [admitted EXCEPT ![lkey[c]] = Append(@, lnow[c])]
    /\ limLock' = {}
    /\ lpc' = [lpc EXCEPT ![c] = "idle"]
    /\ UNCHANGED <<enableRateLimiting, clock, lkey, lnow, lastCall, calls>>

\* time passes
Tick ==
    /\ \E d \in Ticks :
          /\ clock + d <= MaxClock
          /\ clock' = clock + d
    /\ UNCHANGED <<enableRateLimiting, requests, limLock, lpc, lkey, lnow, lres,
                   admitted, lastCall, calls>>

LimInit ==
    /\ enableRateLimiting \in BOOLEAN
    /\ requests = [k \in Keys |-> <<>>]
    /\ limLock = {}
    /\ clock = 0
    /\ lpc = [c \in Clients |-> "idle"]
    /\ lkey = [c \in Clients |-> None]
    /\ lnow = [c \in Clients |-> 0]
    /\ lres = [c \in Clients |-> NoResult]
    /\ admitted = [k \in Keys |-> <<>>]
    /\ lastCall = [k \in Keys |-> -1]
    /\ calls = 0

\* what the rate limiter leaves alone
LimOthers == UNCHANGED <<valVars, schVars, pipVars, unitVars>>

LimNext ==
    \/ \E c \in Clients, k \in Keys : AllowCall(c, k) /\ LimOthers
    \/ \E c \in Clients : AllowAcquire(c) /\ LimOthers
    \/ \E c \in Clients : AllowEvict(c) /\ LimOthers
    \/ \E c \in Clients : AllowCheck(c) /\ LimOthers
    \/ \E c \in Clients : AllowAppend(c) /\ LimOthers
    \/ Tick /\ LimOthers

(***************************************************************************)
(* SQL validator: SQLValidator.validate_and_sanitize.                      *)
(*                                                                         *)
(* SQL text is a sequence of tokens; sqlglot.parse_one turns it into a     *)
(* tree and Expression.sql() renders a tree back to text.  exp.Limit has   *)
(* two arguments, `this` and `expression`; which of them the parser fills  *)
(* with the count and the generator prints after LIMIT belongs to the      *)
(* installed sqlglot (limitArg), the other one is printed, when set, in    *)
(* front of the keyword or not at all.                                     *)
(***************************************************************************)
Tok(t, s, n) == [t |-> t, s |-> s, n |-> n]
KW(s) == Tok("kw", s, -1)
ID(s) == Tok("id", s, -1)          \* an identifier; n >= 0: digits glued to its end
NUM(n) == Tok("num", "", n)        \* a numeric literal
PARAM == Tok("param", "$1", -1)    \* a bind parameter
CALL(s) == Tok("call", s, -1)      \* a function call s(1), s as written

Absent == Tok("absent", "", -1)    \* Python's None for a tree argument
NoLimitNode == [present |-> FALSE, this |-> Absent, expression |-> Absent]
LimitNode(this, expression) == [present |-> TRUE, this |-> this, expression |-> expression]

\* SQLGuardrailConfig.disallowed_functions, as the unit tests configure it
DisallowedFunctions == {"pg_sleep"}

\* str.lower() and the generator's upper-casing of function names, on the
\* function names of the model
Lower(s) == CASE s = "PG_SLEEP" -> "pg_sleep" [] s = "MY_FUNC" -> "my_func"
              [] s = "Seq Scan" -> "seq scan" [] s = "SEQ SCAN" -> "seq scan"
              [] s = "Index Scan" -> "index scan" [] OTHER -> s
Upper(s) == CASE s = "pg_sleep" -> "PG_SLEEP" [] s = "my_func" -> "MY_FUNC" [] OTHER -> s

\* tokens -> tree node
NodeOf(tok) ==
    CASE tok.t = "num" -> Tok("Literal", "", tok.n)
      [] tok.t = "param" -> Tok("Parameter", tok.s, -1)
      [] tok.t = "call" -> Tok("Anonymous", tok.s, -1)
      [] tok.t = "id" -> Tok("Identifier", tok.s, tok.n)
      [] OTHER -> Absent

\* tree node -> tokens (function names are normalised to upper case)
TokensOf(node) ==
    CASE node.t = "Literal" -> <<NUM(node.n)>>
      [] node.t = "Parameter" -> <<PARAM>>
      [] node.t = "Anonymous" -> <<CALL(Upper(node.s))>>
      [] node.t = "Identifier" -> <<Tok("id", node.s, node.n)>>
      [] OTHER -> <<>>

StripSemicolon(toks) ==
    IF toks # <<>> /\ toks[Len(toks)] = KW(";") THEN SubSeq(toks, 1, Len(toks) - 1) ELSE toks

ParseFailure == [ok |-> FALSE, ast |-> [kind |-> "ParseError", proj |-> Absent, from |-> Absent,
                                        where |-> Absent, limit |-> NoLimitNode]]

\* the parsed LIMIT count goes to the argument the installed sqlglot uses for it
ParsedLimit(tok, arg) ==
    IF arg = "this" THEN LimitNode(NodeOf(tok), Absent) ELSE LimitNode(Absent, NodeOf(tok))

\* SELECT proj [FROM table [WHERE call]] [LIMIT count]
ParseSelect(t, arg) ==
    LET hasProj == Len(t) >= 2 /\ t[2].t \in {"id", "call"}
        hasFrom == Len(t) >= 4 /\ t[3] = KW("FROM") /\ t[4].t = "id"
        p2 == IF hasFrom THEN 5 ELSE 3
        hasWhere == hasFrom /\ Len(t) >= p2 + 1 /\ t[p2] = KW("WHERE") /\ t[p2 + 1].t = "call"
        p3 == IF hasWhere THEN p2 + 2 ELSE p2
        hasLimit == Len(t) >= p3 + 1 /\ t[p3] = KW("LIMIT") /\ t[p3 + 1].t \in {"num", "param"}
        p4 == IF hasLimit THEN p3 + 2 ELSE p3
    IN  IF hasProj /\ p4 = Len(t) + 1
        THEN [ok |-> TRUE,
              ast |-> [kind |-> "Select",
                       proj |-> NodeOf(t[2]),
                       from |-> IF hasFrom THEN NodeOf(t[4]) ELSE Absent,
                       where |-> IF hasWhere THEN NodeOf(t[p2 + 1]) ELSE Absent,
                       limit |-> IF hasLimit THEN ParsedLimit(t[p3 + 1], arg) ELSE NoLimitNode]]
        ELSE ParseFailure

\* DELETE FROM table [WHERE call] | UPDATE table ... | INSERT INTO table ... | CREATE TABLE ...
ParseOther(t) ==
    LET kind == CASE t[1] = KW("DELETE") -> "Delete"
                  [] t[1] = KW("UPDATE") -> "Update"
                  [] t[1] = KW("INSERT") -> "Insert"
                  [] t[1] = KW("CREATE") -> "Create"
                  [] OTHER -> "ParseError"
        whereAt == {i \in 2..(Len(t) - 1) : t[i] = KW("WHERE") /\ t[i + 1].t = "call"}
    IN  IF kind = "ParseError" \/ Len(t) < 2
        THEN ParseFailure
        ELSE [ok |-> TRUE,
              ast |-> [kind |-> kind, proj |-> Absent, from |-> Absent,
                       where |-> IF whereAt = {} THEN Absent
                                 ELSE NodeOf(t[(CHOOSE i \in whereAt : TRUE) + 1]),
                       limit |-> NoLimitNode]]

\* sqlglot.parse_one(sql, read="postgres")
ParseOne(sql, arg) ==
    LET t == StripSemicolon(sql)
    IN  IF t = <<>> THEN ParseFailure
        ELSE IF t[1] = KW("SELECT") THEN ParseSelect(t, arg)
        ELSE ParseOther(t)

\* text followed directly by the text of `node`: digits glue to a preceding identifier
Glue(toks, node) ==
    IF node.t = "Literal" /\ toks # <<>> /\ toks[Len(toks)].t = "id" /\ toks[Len(toks)].n < 0
    THEN [toks EXCEPT ![Len(toks)].n = node.n]
    ELSE toks \o TokensOf(node)

\* the generator's limit_sql: the count argument after LIMIT; the other argument, if
\* it is `this`, right in front of the keyword
RenderLimit(prefix, limit, arg) ==
    IF ~limit.present THEN prefix
    ELSE IF arg = "this" THEN prefix \o <<KW("LIMIT")>> \o TokensOf(limit.this)
    ELSE Glue(prefix, limit.this) \o <<KW("LIMIT")>> \o TokensOf(limit.expression)

\* parsed.sql(): the canonical text of a SELECT
Render(ast, arg) ==
    RenderLimit(<<KW("SELECT")>> \o TokensOf(ast.proj)
                   \o (IF ast.from = Absent THEN <<>> ELSE <<KW("FROM")>> \o TokensOf(ast.from))
                   \o (IF ast.where = Absent THEN <<>> ELSE <<KW("WHERE")>> \o TokensOf(ast.where)),
                ast.limit, arg)

\* _enforce_select_only: the error it raises, or "ok"
EnforceSelectOnlyNoFromCheck(ast) ==
    IF ast.kind # "Select" THEN "NotSelect" ELSE "ok"
EnforceSelectOnly(ast) ==
    IF ast.kind # "Select" THEN "NotSelect"
    ELSE IF ast.from = Absent THEN "MissingFrom"
    ELSE "ok"

\* isinstance(value, exp.Literal) and value.is_number
IsNumberLiteral(node) == node.t = "Literal"

\* _enforce_limit: the error it raises or "ok", and the tree as it leaves it
EnforceLimit(ast) ==
    IF ~ast.limit.present
    THEN [err |-> "ok",
          ast |-> [ast EXCEPT !.limit = LimitNode(Tok("Literal", "", MaxLimit), Absent)]]
    ELSE LET value == ast.limit.this
         IN  IF IsNumberLiteral(value)
             THEN IF value.n > MaxLimit
                  THEN [err |-> "ok",
                        ast |-> [ast EXCEPT !.limit.expression = Tok("Literal", "", MaxLimit)]]
                  ELSE [err |-> "ok", ast |-> ast]
             ELSE [err |-> "NonLiteralLimit", ast |-> ast]

\* expr.walk(): the nodes of the tree
Walk(ast) == {ast.proj, ast.from, ast.where, ast.limit.this, ast.limit.expression} \ {Absent}

\* isinstance(node, exp.Func) and node.name.lower() in disallowed
IsDisallowedCaseSensitive(node) ==
    node.t = "Anonymous" /\ node.s \in {Lower(fn) : fn \in DisallowedFunctions}
IsDisallowed(node) ==
    node.t = "Anonymous" /\ Lower(node.s) \in {Lower(fn) : fn \in DisallowedFunctions}

\* _enforce_disallowed_functions: the error it raises, or "ok"
EnforceDisallowedFunctions(ast) ==
    IF \E node \in Walk(ast) : IsDisallowed(node) THEN "DisallowedFunction" ELSE "ok"

Raised(kind) == [status |-> "error", kind |-> kind, sql |-> <<>>]
Returned(sql) == [status |-> "ok", kind |-> "", sql |-> sql]

\* validate_and_sanitize: parse, the three checks in the order of the code, render
ValidateAndSanitize(sql, arg) ==
    LET parsed == ParseOne(sql, arg)
    IN  IF ~parsed.ok THEN Raised("ParseError")
        ELSE LET e1 == EnforceSelectOnly(parsed.ast)
             IN  IF e1 # "ok" THEN Raised(e1)
                 ELSE LET lim == EnforceLimit(parsed.ast)
                      IN  IF lim.err # "ok" THEN Raised(lim.err)
                          ELSE LET e3 == EnforceDisallowedFunctions(lim.ast)
                               IN  IF e3 # "ok" THEN Raised(e3)
                                   ELSE Returned(Render(lim.ast, arg))

\* The SQL texts the validator is run on.
Projections == {ID("id"), CALL("pg_sleep"), CALL("PG_SLEEP"), CALL("my_func")}
FromClauses == {<<>>, <<KW("FROM"), ID("users")>>,
                <<KW("FROM"), ID("users"), KW("WHERE"), CALL("pg_sleep")>>}
LimitClauses == {<<>>, <<KW("LIMIT"), PARAM>>}
                   \cup {<<KW("LIMIT"), NUM(n)>> : n \in 0..MaxLimitLiteral}
Terminators == {<<>>, <<KW(";")>>}
SelectTexts ==
    {<<KW("SELECT"), p>> \o f \o l \o e :
        p \in Projections, f \in FromClauses, l \in LimitClauses, e \in Terminators}
OtherTexts ==
    { <<KW("DELETE"), KW("FROM"), ID("users")>>,
      <<KW("DELETE"), KW("FROM"), ID("users"), KW("WHERE"), CALL("pg_sleep")>>,
      <<KW("UPDATE"), ID("users"), KW("SET"), ID("id"), KW("="), NUM(1)>>,
      <<KW("INSERT"), KW("INTO"), ID("users"), KW("VALUES"), NUM(1)>>,
      <<KW("CREATE"), KW("TABLE"), ID("users")>>,
      <<KW("SELECT"), KW("FROM")>>,
      <<KW("SELECT"), ID("id"), KW("FROM"), ID("users"), KW("LIMIT")>>,
      <<KW("FROM"), ID("users")>> }
SqlTexts == SelectTexts \cup OtherTexts

NoValidation == [status |-> "none", kind |-> "", sql |-> <<>>]

\* one call of validate_and_sanitize
Validate(sql) ==
    /\ vIn' = sql
    /\ vRes' = ValidateAndSanitize(sql, limitArg)
    /\ UNCHANGED limitArg

ValInit ==
    /\ limitArg \in {"this", "expression"}
    /\ vIn = <<>>
    /\ vRes = NoValidation

\* what the validator leaves alone
ValOthers == UNCHANGED <<limVars, schVars, pipVars, unitVars>>

ValNext ==
    \E sql \in SqlTexts : Validate(sql) /\ ValOthers

(***************************************************************************)
(* Schema snapshot: QueryPipeline._get_schema_snapshot over                *)
(* CacheClient.get_json / set_json and SchemaExtractor.get_schema_snapshot.*)
(* A snapshot is identified by the _collect call that produced it (1, 2,   *)
(* ...); 0 is the extractor's initial empty dict.                          *)
(***************************************************************************)
EmptySnapshot == 0
NoTimestamp == -1

\* json.dumps / json.loads of a snapshot
Encode(v) == <<"json", v>>
Decode(payload) == payload[2]

NoEntry == [present |-> FALSE, payload |-> Encode(EmptySnapshot), expires |-> 0]
\* `stored` is a ghost: the time of the set_json that wrote the entry (the dict keeps none)
NoValue == [present |-> FALSE, value |-> EmptySnapshot, stored |-> 0]

\* redis.get(key): the payload, unless the key is missing or its TTL has run out
RemoteGet == IF cacheRemote.present /\ clock < cacheRemote.expires
             THEN [hit |-> TRUE, value |-> Decode(cacheRemote.payload)]
             ELSE [hit |-> FALSE, value |-> EmptySnapshot]

\* self._fallback.get(key)
FallbackGet == [hit |-> cacheFallback.present, value |-> cacheFallback.value]

\* redis.get / redis.set raises RedisError; after the first error the client never
\* contacts the server again, so a server that fails once is one that stays down
RemoteFails == ~redisUp

\* SchemaExtractor._is_stale
IsStaleAlways == TRUE
IsStale ==
    \/ extSnapshot = EmptySnapshot
    \/ extTimestamp = NoTimestamp
    \/ clock - extTimestamp > RefreshIntervalS

\* `if refresh or self._is_stale()`
NeedsCollectIgnoringRefresh(refresh) == IsStale
NeedsCollect(refresh) == refresh \/ IsStale

\* ghost: the stored snapshot has aged out
AgedOut == extSnapshot # EmptySnapshot /\ extTimestamp # NoTimestamp
              /\ clock - extTimestamp > RefreshIntervalS

\* _get_schema_snapshot, first statement: with refresh the cache lookup is skipped
SnapEntry(refresh) == IF refresh THEN "schema_lock" ELSE "cache_get"

\* a request calls _get_schema_snapshot(conn, refresh)
SchemaRequest(r, refresh) ==
    /\ rpc[r] = "idle"
    /\ rrefresh' = [rrefresh EXCEPT ![r] = refresh]
    /\ rpc' = [rpc EXCEPT ![r] = SnapEntry(refresh)]
    /\ UNCHANGED <<redisUp, cacheUnavailable, cacheRemote, cacheFallback, extSnapshot, extTimestamp,
                   extLock, schemaLock, rsnap, collectCount, collectFailed, expiries,
                   rcollects, rown>>

\* cached = await self._cache.get_json(cache_key); if cached: return cached
CacheGet(r) ==
    /\ rpc[r] = "cache_get"
    /\ LET got == IF cacheUnavailable \/ RemoteFails THEN FallbackGet ELSE RemoteGet
       IN  /\ cacheUnavailable' = (cacheUnavailable \/ RemoteFails)
           /\ IF got.hit /\ got.value # EmptySnapshot
              THEN /\ rsnap' = [rsnap EXCEPT ![r] = got.value]
                   /\ rpc' = [rpc EXCEPT ![r] = "ranking"]
              ELSE /\ rpc' = [rpc EXCEPT ![r] = "schema_lock"]
                   /\ UNCHANGED rsnap
    /\ UNCHANGED <<redisUp, cacheRemote, cacheFallback, extSnapshot, extTimestamp, extLock,
                   schemaLock, rrefresh, collectCount, collectFailed, expiries,
                   rcollects, rown>>

\* async with self._schema_lock
AcquireSchemaLock(r) ==
    /\ rpc[r] = "schema_lock"
    /\ schemaLock = {}
    /\ schemaLock' = {r}
    /\ rpc' = [rpc EXCEPT ![r] = "ext_check"]
    /\ UNCHANGED <<redisUp, cacheUnavailable, cacheRemote, cacheFallback, extSnapshot, extTimestamp,
                   extLock, rrefresh, rsnap, collectCount, collectFailed, expiries,
                   rcollects, rown>>

\* SchemaExtractor.get_schema_snapshot: the first test; a fresh snapshot is returned
ExtCheck(r) ==
    /\ rpc[r] = "ext_check"
    /\ expiries' = IF AgedOut THEN expiries + 1 ELSE expiries
    /\ IF NeedsCollect(rrefresh[r])
       THEN /\ rpc' = [rpc EXCEPT ![r] = "ext_lock"]
            /\ UNCHANGED rsnap
       ELSE /\ rsnap' = [rsnap EXCEPT ![r] = extSnapshot]
            /\ rpc' = [rpc EXCEPT ![r] = "cache_set"]
    /\ UNCHANGED <<redisUp, cacheUnavailable, cacheRemote, cacheFallback, extSnapshot, extTimestamp,
                   extLock, schemaLock, rrefresh, collectCount, collectFailed, rcollects,
                   rown>>

\* async with self._lock
ExtAcquire(r) ==
    /\ rpc[r] = "ext_lock"
    /\ extLock = {}
    /\ extLock' = {r}
    /\ rpc' = [rpc EXCEPT ![r] = "ext_recheck"]
    /\ UNCHANGED <<redisUp, cacheUnavailable, cacheRemote, cacheFallback, extSnapshot, extTimestamp,
                   schemaLock, rrefresh, rsnap, collectCount, collectFailed, expiries,
                   rcollects, rown>>

\* the second test, under the lock: _collect starts, or the snapshot is returned
ExtRecheck(r) ==
    /\ rpc[r] = "ext_recheck"
    /\ IF NeedsCollect(rrefresh[r])
       THEN /\ collectCount' = collectCount + 1
            /\ rcollects' = [rcollects EXCEPT ![r] = @ + 1]
            /\ rpc' = [rpc EXCEPT ![r] = "collecting"]
            /\ UNCHANGED <<rsnap, extLock>>
       ELSE /\ rsnap' = [rsnap EXCEPT ![r] = extSnapshot]
            /\ extLock' = {}
            /\ rpc' = [rpc EXCEPT ![r] = "cache_set"]
            /\ UNCHANGED <<collectCount, rcollects>>
    /\ UNCHANGED <<redisUp, cacheUnavailable, cacheRemote, cacheFallback, extSnapshot, extTimestamp,
                   schemaLock, rrefresh, collectFailed, expiries, rown>>

\* self._snapshot = await self._collect(conn); self._timestamp = utcnow();
\* the lock is released and self._snapshot returned
CollectFinish(r) ==
    /\ rpc[r] = "collecting"
    /\ extSnapshot' = collectCount
    /\ extTimestamp' = clock
    /\ extLock' = {}
    /\ rown' = [rown EXCEPT ![r] = collectCount]
    /\ rsnap' = [rsnap EXCEPT ![r] = collectCount]
    /\ rpc' = [rpc EXCEPT ![r] = "cache_set"]
    /\ UNCHANGED <<redisUp, cacheUnavailable, cacheRemote, cacheFallback, schemaLock, rrefresh,
                   collectCount, collectFailed, expiries, rcollects>>

\* a failure that leaves the extractor's lock held
CollectFailHoldingLock(r) ==
    /\ rpc[r] = "collecting"
    /\ collectFailed' = collectFailed + 1
    /\ schemaLock' = {}
    /\ rpc' = [rpc EXCEPT ![r] = "failed"]
    /\ UNCHANGED <<redisUp, cacheUnavailable, cacheRemote, cacheFallback, extSnapshot, extTimestamp,
                   extLock, rrefresh, rsnap, collectCount, expiries, rcollects, rown>>

\* an introspection query of _collect raises: both locks are released on the way out
CollectFail(r) ==
    /\ rpc[r] = "collecting"
    /\ collectFailed' = collectFailed + 1
    /\ extLock' = {}
    /\ schemaLock' = {}
    /\ rpc' = [rpc EXCEPT ![r] = "failed"]
    /\ UNCHANGED <<redisUp, cacheUnavailable, cacheRemote, cacheFallback, extSnapshot, extTimestamp,
                   rrefresh, rsnap, collectCount, expiries, rcollects, rown>>

\* await self._cache.set_json(cache_key, snapshot, ttl); return snapshot
CacheSet(r) ==
    /\ rpc[r] = "cache_set"
    /\ cacheUnavailable' = (cacheUnavailable \/ RemoteFails)
    /\ IF cacheUnavailable \/ RemoteFails
       THEN /\ cacheFallback' = [present |-> TRUE, value |-> rsnap[r], stored |-> clock]
            /\ UNCHANGED cacheRemote
       ELSE /\ cacheRemote' = [present |-> TRUE, payload |-> Encode(rsnap[r]),
                               expires |-> clock + RefreshIntervalS]
            /\ UNCHANGED cacheFallback
    /\ schemaLock' = {}
    /\ rpc' = [rpc EXCEPT ![r] = "ranking"]
    /\ UNCHANGED <<redisUp, extSnapshot, extTimestamp, extLock, rrefresh, rsnap, collectCount,
                   collectFailed, expiries, rcollects, rown>>

SchInit ==
    /\ redisUp = TRUE
    /\ cacheUnavailable = FALSE
    /\ cacheRemote = NoEntry
    /\ cacheFallback = NoValue
    /\ extSnapshot = EmptySnapshot
    /\ extTimestamp = NoTimestamp
    /\ extLock = {}
    /\ schemaLock = {}
    /\ rpc = [r \in Reqs |-> "idle"]
    /\ rrefresh = [r \in Reqs |-> FALSE]
    /\ rsnap = [r \in Reqs |-> EmptySnapshot]
    /\ collectCount = 0
    /\ collectFailed = 0
    /\ expiries = 0
    /\ rcollects = [r \in Reqs |-> 0]
    /\ rown = [r \in Reqs |-> EmptySnapshot]

\* the Redis server stops answering
RedisGoesDown ==
    /\ redisUp
    /\ redisUp' = FALSE
    /\ UNCHANGED <<cacheUnavailable, cacheRemote, cacheFallback, extSnapshot, extTimestamp,
                   extLock, schemaLock, rpc, rrefresh, rsnap, collectCount, collectFailed,
                   expiries, rcollects, rown>>

\* time passes while requests are in flight
SchTick ==
    /\ \E d \in Ticks :
          /\ clock + d <= MaxClock
          /\ clock' = clock + d
    /\ UNCHANGED schVars

\* what the snapshot stage leaves alone
SchOthers == UNCHANGED <<limVars, valVars, pipVars, unitVars>>

SchNext ==
    \/ \E r \in Reqs, refresh \in BOOLEAN : SchemaRequest(r, refresh) /\ SchOthers
    \/ \E r \in Reqs : CacheGet(r) /\ SchOthers
    \/ \E r \in Reqs : AcquireSchemaLock(r) /\ SchOthers
    \/ \E r \in Reqs : ExtCheck(r) /\ SchOthers
    \/ \E r \in Reqs : ExtAcquire(r) /\ SchOthers
    \/ \E r \in Reqs : ExtRecheck(r) /\ SchOthers
    \/ \E r \in Reqs : CollectFinish(r) /\ SchOthers
    \/ \E r \in Reqs : CollectFail(r) /\ SchOthers
    \/ \E r \in Reqs : CacheSet(r) /\ SchOthers
    \/ RedisGoesDown /\ SchOthers
    \/ SchTick /\ UNCHANGED <<limState, valVars, pipVars, unitVars>>

(***************************************************************************)
(* The request handler: QueryPipeline.handle under run_query.  One action  *)
(* is the code between two awaits of a handler; the snapshot stage is the  *)
(* actions above, and position "ranking" is a handler that has its         *)
(* snapshot, has ranked and sliced it and awaits the reasoner.  Requests   *)
(* are handled within one second of one another, with Redis answering.     *)
(***************************************************************************)
Statuses == {"rate_limited", "rejected", "success", "failed"}
\* request.user_id: the requests of the handler model are anonymous, so that they
\* share one budget of the rate limiter
UserIds == {None, ""}
NoSql == <<>>
NoPlan == [plan_rows |-> -1, total_cost |-> -1, node_type |-> ""]
Terminal == {"rate_limited", "failed", "responded"}

\* requests enough to exhaust one key's budget and be denied once
MaxHandled == MaxRequestsPerMinute + 1

\* a handler runs while it holds a connection of the pool: as many handlers as the
\* pool has connections
Handlers == {r \in Reqs : r <= MaxPoolSize}

\* user_key = request.user_id or "anonymous"
UserKey(user_id) == IF user_id = None \/ user_id = "" THEN "anonymous" ELSE user_id

FreshRequest == [id |-> 0, user_key |-> "", primary |-> NoSql, sql |-> NoSql,
                 explained |-> NoSql, plan |-> NoPlan, allowed |-> FALSE,
                 executed |-> NoSql, synthesized |-> NoSql, returned |-> NoSql,
                 log |-> <<>>]

\* RateLimiter.allow as a handler runs it: nothing awaits while the lock is held, so
\* the lock is free at every call and the body runs to completion
AllowOutcome(k, now) ==
    IF ~enableRateLimiting THEN [ok |-> TRUE, queue |-> requests[k]]
    ELSE LET queue == Evict(requests[k], WindowStart(now))
         IN  IF AtLimit(queue) THEN [ok |-> FALSE, queue |-> queue]
             ELSE [ok |-> TRUE, queue |-> Append(queue, now)]

\* SQLGenerator._compose_sql: SELECT cols FROM base LIMIT sample_limit;
GeneratedSql ==
    <<KW("SELECT"), ID("id"), KW("FROM"), ID("users"), KW("LIMIT"), NUM(SampleLimit), KW(";")>>

\* what the reasoner call and the generator can come to
ReasonerOutcomes == {"ok", "reasoner_error"}

\* the root of the plan EXPLAIN returns, as _extract_metrics reads it
Plan(rows, cost, node) == [plan_rows |-> rows, total_cost |-> cost, node_type |-> node]
Plans == { Plan((RowThreshold \div 10) + 1, 1, "Index Scan"),
           Plan((RowThreshold \div 10) + 1, 1, "Seq Scan"),
           Plan(RowThreshold + 1, 1, "Index Scan"),
           Plan(1, CostThreshold + 1, "Index Scan") }

\* rules that already fire at a threshold
ApplyRulesAtThreshold(metrics) ==
    IF metrics.plan_rows >= RowThreshold THEN FALSE
    ELSE IF metrics.total_cost >= CostThreshold THEN FALSE
    ELSE IF Lower(metrics.node_type) = "seq scan" /\ 10 * metrics.plan_rows >= RowThreshold
         THEN FALSE
    ELSE TRUE

\* GuardrailEngine._apply_rules; plan_rows > row_threshold / 10 is a test on reals
ApplyRules(metrics) ==
    IF metrics.plan_rows > RowThreshold THEN FALSE
    ELSE IF metrics.total_cost > CostThreshold THEN FALSE
    ELSE IF Lower(metrics.node_type) = "seq scan" /\ 10 * metrics.plan_rows > RowThreshold
         THEN FALSE
    ELSE TRUE

\* the raw statement of the generator in the place of the sanitized one
ExplainedPrimarySql(q) == q.primary

\* the statement handle passes to guardrail_check, which prefixes it with EXPLAIN
ExplainedSql(q) == q.sql

\* the statement handle passes to execute_sql
ExecutedPrimarySql(q) == q.primary
ExecutedSql(q) == q.sql

\* where handle goes after the guardrail verdict
AfterGuardIgnoringVerdict(allowed) == "execution"
AfterGuard(allowed) == IF allowed THEN "execution" ELSE "failed"

\* run_query: the HTTP status of a finished request
HttpStatusWithoutRateLimitClause(r) ==
    CASE rpc[r] = "responded" -> 200
      [] rpc[r] \in {"rate_limited", "failed"} -> 500
      [] OTHER -> 0
HttpStatus(r) ==
    CASE rpc[r] = "responded" -> 200
      [] rpc[r] = "rate_limited" -> 429
      [] rpc[r] = "failed" -> 500
      [] OTHER -> 0

Inc(label) == [counters EXCEPT ![label] = @ + 1]

\* AuditLogger.write: the file is opened in append mode and gets one more line
AuditWriteTruncating(lines, entry) == <<entry>>
AuditWrite(lines, entry) == Append(lines, entry)

limRest == <<enableRateLimiting, limLock, clock, lpc, lkey, lnow, lres, admitted,
             lastCall, calls>>
schShared == <<redisUp, cacheUnavailable, cacheRemote, cacheFallback, extSnapshot, extTimestamp,
               extLock, schemaLock, collectCount, collectFailed, expiries>>
schLocals == <<rrefresh, rsnap, rcollects, rown>>
schRest == <<schShared, schLocals>>

\* request.refresh_schema and schema_snapshot are not read after the call of
\* guardrail_check; the model forgets them, and the ghosts of the snapshot stage
ForgetSnapshot(r) ==
    /\ rrefresh' = [rrefresh EXCEPT ![r] = FALSE]
    /\ rsnap' = [rsnap EXCEPT ![r] = EmptySnapshot]
    /\ rcollects' = [rcollects EXCEPT ![r] = 0]
    /\ rown' = [rown EXCEPT ![r] = EmptySnapshot]

\* get_connection has acquired a connection of the pool (the connections are
\* interchangeable: the lowest free one is handed out) and run_query calls handle:
\* the rate limiter, then _get_schema_snapshot is entered
HandleStart(r, user_id, refresh) ==
    /\ rpc[r] = "idle"
    /\ \A q \in Handlers : q < r => rpc[q] # "idle"
    /\ handled < MaxHandled
    /\ Cardinality(poolOut) < MaxPoolSize
    /\ poolOut' = poolOut \cup {r}
    /\ handled' = handled + 1
    /\ LET key == UserKey(user_id)
           res == AllowOutcome(key, clock)
       IN  /\ requests' = [requests EXCEPT ![key] = res.queue]
           /\ IF res.ok
              THEN /\ SchemaRequest(r, refresh)
                   /\ rq' = [rq EXCEPT ![r] = [FreshRequest EXCEPT !.id = handled + 1,
                                                  !.user_key = key, !.log = <<"allow">>]]
                   /\ UNCHANGED counters
              ELSE /\ counters' = Inc("rate_limited")
                   /\ rq' = [rq EXCEPT ![r] = [FreshRequest EXCEPT !.id = handled + 1,
                                                  !.user_key = key, !.log = <<"rate_limited">>]]
                   /\ rpc' = [rpc EXCEPT ![r] = "rate_limited"]
                   /\ UNCHANGED schRest
    /\ UNCHANGED <<limRest, valVars, unitVars, auditLog>>

\* the reasoner returns; generate, validate_and_sanitize and the call of
\* guardrail_check follow without an await
ReasonGenerateValidate(r) ==
    /\ rpc[r] = "ranking"
    /\ ForgetSnapshot(r)
    /\ \E out \in ReasonerOutcomes :
          LET v == ValidateAndSanitize(GeneratedSql, limitArg)
          IN  IF out # "ok"
              THEN /\ rq' = [rq EXCEPT ![r].log = Append(@, out)]
                   /\ rpc' = [rpc EXCEPT ![r] = "failed"]
              ELSE IF v.status = "error"
              THEN /\ rq' = [rq EXCEPT ![r].primary = GeneratedSql,
                                       ![r].log = Append(@, v.kind)]
                   /\ rpc' = [rpc EXCEPT ![r] = "failed"]
              ELSE /\ rq' = [rq EXCEPT ![r].primary = GeneratedSql, ![r].sql = v.sql,
                                       ![r].log = Append(@, "validated")]
                   /\ rpc' = [rpc EXCEPT ![r] = "guardrails"]
    /\ UNCHANGED <<limVars, valVars, unitVars, schShared, counters, auditLog, poolOut, handled>>

\* guardrail_check: EXPLAIN returns (or raises), the rules are applied, and a plan
\* that is not allowed is counted and raised
GuardrailCheck(r) ==
    /\ rpc[r] = "guardrails"
    /\ \/ /\ rq' = [rq EXCEPT ![r].explained = ExplainedSql(rq[r]),
                              ![r].log = Append(@, "explain_error")]
          /\ rpc' = [rpc EXCEPT ![r] = "failed"]
          /\ UNCHANGED counters
       \/ \E plan \in Plans :
             LET allowed == ApplyRules(plan)
             IN  /\ rq' = [rq EXCEPT ![r].explained = ExplainedSql(rq[r]), ![r].plan = plan,
                                     ![r].allowed = allowed,
                                     ![r].log = @ \o (IF allowed THEN <<"guardrails">>
                                                      ELSE <<"guardrails", "rejected">>)]
                 /\ counters' = IF allowed THEN counters ELSE Inc("rejected")
                 /\ rpc' = [rpc EXCEPT ![r] = AfterGuard(allowed)]
    /\ UNCHANGED <<limVars, valVars, unitVars, schRest, auditLog, poolOut, handled>>

\* execute_sql: conn.fetch returns rows, or the wait times out
ExecuteSql(r) ==
    /\ rpc[r] = "execution"
    /\ \/ /\ rq' = [rq EXCEPT ![r].executed = ExecutedSql(rq[r]),
                              ![r].log = Append(@, "execute_timeout")]
          /\ rpc' = [rpc EXCEPT ![r] = "failed"]
       \/ /\ rq' = [rq EXCEPT ![r].executed = ExecutedSql(rq[r]),
                              ![r].log = Append(@, "execute")]
          /\ rpc' = [rpc EXCEPT ![r] = "synthesis"]
    /\ UNCHANGED <<limVars, valVars, unitVars, schRest, counters, auditLog, poolOut, handled>>

\* synthesize returns (or raises on an invalid reply); then the success counter, the
\* audit entry (the write may raise) and the response, without an await
SynthesizeAndRespond(r) ==
    /\ rpc[r] = "synthesis"
    /\ \/ /\ rq' = [rq EXCEPT ![r].synthesized = rq[r].sql,
                              ![r].log = Append(@, "synthesis_error")]
          /\ rpc' = [rpc EXCEPT ![r] = "failed"]
          /\ UNCHANGED <<counters, auditLog>>
       \/ /\ counters' = Inc("success")
          /\ \/ /\ auditLog' = AuditWrite(auditLog, [id |-> rq[r].id, user_id |-> rq[r].user_key,
                                                     sql |-> rq[r].sql,
                                                     guard_metrics |-> rq[r].plan])
                /\ rq' = [rq EXCEPT ![r].synthesized = rq[r].sql, ![r].returned = rq[r].sql,
                                    ![r].log = @ \o <<"synthesize", "success", "audit", "return">>]
                /\ rpc' = [rpc EXCEPT ![r] = "responded"]
             \/ /\ UNCHANGED auditLog
                /\ rq' = [rq EXCEPT ![r].synthesized = rq[r].sql,
                                    ![r].log = @ \o <<"synthesize", "success", "audit_error">>]
                /\ rpc' = [rpc EXCEPT ![r] = "failed"]
    /\ UNCHANGED <<limVars, valVars, unitVars, schRest, poolOut, handled>>

\* a release that leaves the connection checked out
ReleaseNothing(pool, r) == pool

\* Database.release: pool.release(conn)
Release(pool, r) == pool \ {r}

\* get_connection's finally: the connection goes back to the pool and the response
\* (run_query's mapping of the outcome) is sent; the locals of the handler are gone
Retire(r) ==
    /\ rpc[r] \in Terminal
    /\ poolOut' = Release(poolOut, r)
    /\ rpc' = [rpc EXCEPT ![r] = "idle"]
    /\ rq' = [rq EXCEPT ![r] = FreshRequest]
    /\ ForgetSnapshot(r)
    /\ UNCHANGED <<limVars, valVars, unitVars, schShared, counters, auditLog, handled>>

PipInit ==
    /\ counters = [s \in Statuses |-> 0]
    /\ auditLog = <<>>
    /\ rq = [r \in Reqs |-> FreshRequest]
    /\ poolOut = {}
    /\ handled = 0

\* what the snapshot stage of a handler leaves alone
PipOthers == UNCHANGED <<limVars, valVars, pipVars, unitVars>>

PipNext ==
    \/ \E r \in Handlers, user_id \in UserIds, refresh \in BOOLEAN : HandleStart(r, user_id, refresh)
    \/ \E r \in Handlers : CacheGet(r) /\ PipOthers
    \/ \E r \in Handlers : AcquireSchemaLock(r) /\ PipOthers
    \/ \E r \in Handlers : ExtCheck(r) /\ PipOthers
    \/ \E r \in Handlers : ExtAcquire(r) /\ PipOthers
    \/ \E r \in Handlers : ExtRecheck(r) /\ PipOthers
    \/ \E r \in Handlers : CollectFinish(r) /\ PipOthers
    \/ \E r \in Handlers : CollectFail(r) /\ PipOthers
    \/ \E r \in Handlers : CacheSet(r) /\ PipOthers
    \/ \E r \in Handlers : ReasonGenerateValidate(r)
    \/ \E r \in Handlers : GuardrailCheck(r)
    \/ \E r \in Handlers : ExecuteSql(r)
    \/ \E r \in Handlers : SynthesizeAndRespond(r)
    \/ \E r \in Handlers : Retire(r)

(***************************************************************************)
(* Cache client on its own: CacheClient.connect / close / get_json /       *)
(* set_json over several keys, against a Redis server that may stop         *)
(* answering.  A call runs to its end before the next one starts.           *)
(***************************************************************************)
CacheKeys == {"schema_snapshot", "other"}
MaxCacheValue == 2
CacheValues == 1..MaxCacheValue
MaxCacheOps == 4

\* Python's None as a cached value: what dict.get and get_json give for no entry
Missing == 0

NoStoreEntry == [present |-> FALSE, payload |-> Encode(Missing), expires |-> 0]
NoCall == [op |-> "none", key |-> "", arg |-> Missing, outcome |-> "none", error |-> "",
           result |-> Missing, contacted |-> FALSE, unavailable |-> FALSE]

\* redis_async.from_url either gives a client or raises RedisError
FromUrlOutcomes == {"client", "RedisError"}

\* `assert self._redis is not None` raises AssertionError; where assertions are
\* compiled out, `redis.get` on None raises AttributeError
EnsureErrors == {"AssertionError", "AttributeError"}

\* connect(): under the lock, create the client unless there is one
ConnectResult(from_url) ==
    IF ccRedis # None THEN [redis |-> ccRedis, unavailable |-> ccUnavailable]
    ELSE IF from_url = "RedisError" THEN [redis |-> None, unavailable |-> TRUE]
    ELSE [redis |-> "client", unavailable |-> ccUnavailable]

\* redis.get(key) on a server that answers
StoreGet(key) ==
    IF ccStore[key].present /\ clock < ccStore[key].expires
    THEN Decode(ccStore[key].payload)
    ELSE Missing

\* how a call ended
Ended(op, key, arg, outcome, error, result, contacted) ==
    [op |-> op, key |-> key, arg |-> arg, outcome |-> outcome, error |-> error,
     result |-> result, contacted |-> contacted, unavailable |-> ccUnavailable]

CountCall ==
    /\ ccOps < MaxCacheOps
    /\ ccOps' = ccOps + 1

Connect(from_url) ==
    /\ CountCall
    /\ ccRedis' = ConnectResult(from_url).redis
    /\ ccUnavailable' = ConnectResult(from_url).unavailable
    /\ ccLast' = Ended("connect", "", Missing, "returned", "", Missing, FALSE)
    /\ UNCHANGED <<ccFallback, ccStore, ccSet, ccSetLocal>>

Close ==
    /\ CountCall
    /\ ccRedis' = None
    /\ ccLast' = Ended("close", "", Missing, "returned", "", Missing, FALSE)
    /\ UNCHANGED <<ccUnavailable, ccFallback, ccStore, ccSet, ccSetLocal>>

GetJson(key, from_url, error) ==
    /\ CountCall
    /\ UNCHANGED <<ccFallback, ccStore, ccSet, ccSetLocal>>
    /\ IF ccUnavailable
       THEN /\ ccLast' = Ended("get_json", key, Missing, "returned", "", ccFallback[key], FALSE)
            /\ UNCHANGED <<ccRedis, ccUnavailable>>
       ELSE LET e == ConnectResult(from_url) IN
            /\ ccRedis' = e.redis
            /\ IF e.redis = None
               THEN \* _ensure: connect left no client
                    /\ ccUnavailable' = e.unavailable
                    /\ ccLast' = Ended("get_json", key, Missing, "raised", error, Missing, FALSE)
               ELSE IF RemoteFails
               THEN /\ ccUnavailable' = TRUE
                    /\ ccLast' = Ended("get_json", key, Missing, "returned", "",
                                       ccFallback[key], TRUE)
               ELSE /\ ccUnavailable' = e.unavailable
                    /\ ccLast' = Ended("get_json", key, Missing, "returned", "",
                                       StoreGet(key), TRUE)

\* a write that leaves the fallback map as it was
FallbackForget(key, value) == ccFallback

\* self._fallback[key] = value
FallbackPut(key, value) == [ccFallback EXCEPT ![key] = value]

SetJson(key, value, ttl_seconds, from_url, error) ==
    /\ CountCall
    /\ ccSet' = [ccSet EXCEPT ![key] = value]
    /\ IF ccUnavailable
       THEN /\ ccFallback' = FallbackPut(key, value)
            /\ ccSetLocal' = [ccSetLocal EXCEPT ![key] = value]
            /\ ccLast' = Ended("set_json", key, value, "returned", "", Missing, FALSE)
            /\ UNCHANGED <<ccRedis, ccUnavailable, ccStore>>
       ELSE LET e == ConnectResult(from_url) IN
            /\ ccRedis' = e.redis
            /\ IF e.redis = None
               THEN /\ ccUnavailable' = e.unavailable
                    /\ ccLast' = Ended("set_json", key, value, "raised", error, Missing, FALSE)
                    /\ UNCHANGED <<ccFallback, ccStore, ccSetLocal>>
               ELSE IF RemoteFails
               THEN /\ ccUnavailable' = TRUE
                    /\ ccFallback' = FallbackPut(key, value)
                    /\ ccSetLocal' = [ccSetLocal EXCEPT ![key] = value]
                    /\ ccLast' = Ended("set_json", key, value, "returned", "", Missing, TRUE)
                    /\ UNCHANGED ccStore
               ELSE /\ ccUnavailable' = e.unavailable
                    /\ ccStore' = [ccStore EXCEPT ![key] =
                                      [present |-> TRUE, payload |-> Encode(value),
                                       expires |-> clock + ttl_seconds]]
                    /\ ccLast' = Ended("set_json", key, value, "returned", "", Missing, TRUE)
                    /\ UNCHANGED <<ccFallback, ccSetLocal>>

CliInit ==
    /\ ccRedis = None
    /\ ccUnavailable = FALSE
    /\ ccFallback = [k \in CacheKeys |-> Missing]
    /\ ccStore = [k \in CacheKeys |-> NoStoreEntry]
    /\ ccLast = NoCall
    /\ ccSet = [k \in CacheKeys |-> Missing]
    /\ ccSetLocal = [k \in CacheKeys |-> Missing]
    /\ ccOps = 0

\* what the cache client leaves alone
CliOthers ==
    UNCHANGED <<limVars, valVars, schVars, pipVars, selVars, reaVars, grdVars, exeVars, llmVars,
                genVars>>

CliNext ==
    \/ \E from_url \in FromUrlOutcomes : Connect(from_url) /\ CliOthers
    \/ Close /\ CliOthers
    \/ \E key \in CacheKeys, from_url \in FromUrlOutcomes, error \in EnsureErrors :
          GetJson(key, from_url, error) /\ CliOthers
    \/ \E key \in CacheKeys, value \in CacheValues, from_url \in FromUrlOutcomes,
          error \in EnsureErrors :
          SetJson(key, value, RefreshIntervalS, from_url, error) /\ CliOthers
    \/ RedisGoesDown /\ UNCHANGED <<limVars, valVars, pipVars, unitVars>>

(***************************************************************************)
(* Schema slicer: select_schema_slice.  A table meta is described by the   *)
(* text json.dumps gives for it: the two braces, `ascii` further ASCII      *)
(* characters and `escaped` characters outside ASCII, each of which         *)
(* json.dumps writes as a six-character \uXXXX escape.                      *)
(***************************************************************************)
TableIds == {"public.a", "public.b", "public.c"}
MaxMetaChars == 2
MaxRanked == 3
MaxSchemaSliceBytes == 12

\* tables.get(table_id) for an id the snapshot does not hold
NoMeta == [ascii |-> 0, escaped |-> 0]
Metas == [ascii : 1..MaxMetaChars, escaped : {0, 1}]

\* len(json.dumps(meta).encode("utf-8"))
JsonBytes(meta) == 2 + meta.ascii + 6 * meta.escaped

\* pieces of a constraint definition; "(" and ")" are pieces of their own
DefSingle == <<"FOREIGN KEY ", "(", "col", ")", " REFERENCES public.t", "(", " id ", ")">>
DefMulti == <<"FOREIGN KEY ", "(", "a, b", ")", " REFERENCES public.t", "(", "c, d", ")">>
DefNone == <<>>

\* str.strip
Strip(piece) == IF piece = " id " THEN "id" ELSE piece

\* the pieces before the first `sep`
RECURSIVE Before(_, _)
Before(pieces, sep) ==
    IF pieces = <<>> \/ Head(pieces) = sep THEN <<>>
    ELSE <<Head(pieces)>> \o Before(Tail(pieces), sep)

\* the pieces after the first `sep`; <<"none">> if there is no `sep`
RECURSIVE After(_, _)
After(pieces, sep) ==
    IF pieces = <<>> THEN <<None>>
    ELSE IF Head(pieces) = sep THEN Tail(pieces)
    ELSE After(Tail(pieces), sep)

\* definition.split("(")[index], or <<"none">> where that raises IndexError
RECURSIVE SplitPart(_, _)
SplitPart(pieces, index) ==
    IF pieces = <<None>> THEN <<None>>
    ELSE IF index = 0 THEN Before(pieces, "(")
    ELSE SplitPart(After(pieces, "("), index - 1)

\* _extract_fk_column: the text between the index-th "(" and the next ")", stripped;
\* the empty text if there is no such "("
ExtractFkColumn(definition, index) ==
    LET part == SplitPart(definition, index)
        col == Before(part, ")")
    IN IF part = <<None>> THEN <<>>
       ELSE [i \in 1..Len(col) |-> Strip(col[i])]

ForeignKey(table, foreign_table, definition) ==
    [table |-> table, foreign_table |-> foreign_table, definition |-> definition]

\* a test that already stops at the budget itself
OverBudgetAtBudget(total_bytes, budget) == total_bytes >= budget

\* total_bytes > cfg.max_schema_slice_bytes
OverBudget(total_bytes, budget) == total_bytes > budget

\* the loop over table_ids: the ids of slice_tables
RECURSIVE WalkTableIds(_, _, _, _, _)
WalkTableIds(tables, table_ids, budget, total_bytes, slice_tables) ==
    IF table_ids = <<>> THEN slice_tables
    ELSE LET table_id == Head(table_ids)
             meta == tables[table_id]
             total == total_bytes + JsonBytes(meta)
         IN IF meta = NoMeta
            THEN WalkTableIds(tables, Tail(table_ids), budget, total_bytes, slice_tables)
            ELSE IF OverBudget(total, budget) THEN slice_tables
            ELSE WalkTableIds(tables, Tail(table_ids), budget, total,
                              slice_tables \cup {table_id})

\* a test that looks at the referencing table only
LeftTableInSlice(fk, slice_tables) == fk.table \in slice_tables

\* fk_tables <= set(slice_tables.keys())
BothTablesInSlice(fk, slice_tables) == {fk.table, fk.foreign_table} \subseteq slice_tables

\* the loop over snapshot["foreign_keys"]
RECURSIVE FilterForeignKeys(_, _)
FilterForeignKeys(foreign_keys, slice_tables) ==
    IF foreign_keys = <<>> THEN <<>>
    ELSE LET fk == Head(foreign_keys)
             rest == FilterForeignKeys(Tail(foreign_keys), slice_tables)
         IN IF BothTablesInSlice(fk, slice_tables)
            THEN <<<<fk.table, ExtractFkColumn(fk.definition, 1),
                     fk.foreign_table, ExtractFkColumn(fk.definition, 2)>>>> \o rest
            ELSE rest

SelectSchemaSlice(snapshot, table_ids, budget) ==
    LET slice_tables == WalkTableIds(snapshot.tables, table_ids, budget, 0, {})
    IN [tables |-> [t \in slice_tables |-> snapshot.tables[t]],
        foreign_keys |-> FilterForeignKeys(snapshot.foreign_keys, slice_tables)]

RECURSIVE SeqsUpTo(_, _)
SeqsUpTo(S, n) ==
    IF n = 0 THEN {<<>>}
    ELSE LET shorter == SeqsUpTo(S, n - 1)
         IN shorter \cup {Append(q, x) : q \in shorter, x \in S}

ForeignKeyLists ==
    {<<>>,
     <<ForeignKey("public.a", "public.b", DefSingle)>>,
     <<ForeignKey("public.b", "public.c", DefMulti), ForeignKey("public.a", "public.a", DefNone),
       ForeignKey("public.b", "public.c", DefMulti)>>}

Snapshots == [tables : [TableIds -> Metas \cup {NoMeta}], foreign_keys : ForeignKeyLists]
Budgets == {MaxSchemaSliceBytes - 1, MaxSchemaSliceBytes}
SliceInputs == [snapshot : Snapshots, table_ids : SeqsUpTo(TableIds, MaxRanked), budget : Budgets]

NoSliceInput == [snapshot |-> [tables |-> [t \in TableIds |-> NoMeta], foreign_keys |-> <<>>],
                 table_ids |-> <<>>, budget |-> MaxSchemaSliceBytes]
NoSlice == [status |-> "none", tables |-> <<>>, foreign_keys |-> <<>>]

\* one call of select_schema_slice
Select ==
    /\ slOut.status = "none"
    /\ slOut' = [status |-> "returned"] @@
                SelectSchemaSlice(slIn.snapshot, slIn.table_ids, slIn.budget)
    /\ UNCHANGED slIn

SelIdle ==
    /\ slIn = NoSliceInput
    /\ slOut = NoSlice

SelInit ==
    /\ slIn \in SliceInputs
    /\ slOut = NoSlice

\* what the slicer leaves alone
SelOthers ==
    UNCHANGED <<limVars, valVars, schVars, pipVars, cliVars, reaVars, grdVars, exeVars, llmVars,
                genVars>>

SelNext == Select /\ SelOthers

(***************************************************************************)
(* Reasoner: LLMReasoner.reason_schema_with_llm.  The reply of the LLM is a *)
(* JSON object; the JSON schema it is validated against is read from disk   *)
(* and fixes the shape of the fields only.                                  *)
(***************************************************************************)
MaxRelevant == 2

\* JSON values: a list of names, and a string where a list is expected
JsonList(items) == [type |-> "array", items |-> items]
JsonString == [type |-> "string", items |-> <<>>]

\* an entry of foreign_keys_map with three items instead of four
ShortTuple == <<"public.a", "id", "public.b">>

ReplyTables == {"public.a", "public.b", "public.x"}
ReplyColumns == {"id", "bogus"}

\* schema slices: table -> its columns
Slices ==
    {[t \in {"public.a"} |-> {"id"}],
     [t \in {"public.a", "public.b"} |-> IF t = "public.a" THEN {"id"} ELSE {"id", "name"}]}

\* result["schema_context"]: some tables, each with {"columns": [...]}
SchemaContexts ==
    UNION {[T -> {<<"id">>, <<"bogus">>}] : T \in SUBSET ReplyTables}

\* result["foreign_keys_map"]: at most one entry
ForeignKeysMaps ==
    {<<>>, <<ShortTuple>>}
    \cup {<<<<l, lc, r, "id">>>> : l \in ReplyTables, lc \in ReplyColumns, r \in ReplyTables}

LLMError == [failure |-> "LLMError"]
Replies ==
    [relevant_tables : {JsonList(q) : q \in SeqsUpTo(ReplyTables, MaxRelevant)} \cup {JsonString},
     schema_context : SchemaContexts,
     foreign_keys_map : ForeignKeysMaps]

\* reasoner_validator.iter_errors(result): the fields that do not have their shape
StructuralErrors(result) ==
    {f \in {"relevant_tables"} : result[f].type # "array"}
    \cup {f \in {"foreign_keys_map"} : \E i \in 1..Len(result[f]) : Len(result[f][i]) # 4}

\* _enforce_schema_bounds raises ValueError
OutOfBounds(result, schema_slice) ==
    LET allowed_tables == DOMAIN schema_slice IN
    \/ \E i \in 1..Len(result.relevant_tables.items) :
          result.relevant_tables.items[i] \notin allowed_tables
    \/ \E table \in DOMAIN result.schema_context :
          \/ table \notin allowed_tables
          \/ \E i \in 1..Len(result.schema_context[table]) :
                result.schema_context[table][i] \notin schema_slice[table]

NoReasoning == [status |-> "none", error |-> "", result |-> <<>>]
NoReasonerInput == [schema_slice |-> <<>>, reply |-> LLMError]

ReasonSchemaWithLlm(schema_slice, reply) ==
    IF reply = LLMError
    THEN [status |-> "raised", error |-> "LLMError", result |-> <<>>]
    ELSE IF StructuralErrors(reply) # {}
    THEN [status |-> "raised", error |-> "invalid schema", result |-> <<>>]
    ELSE IF OutOfBounds(reply, schema_slice)
    THEN [status |-> "raised", error |-> "unknown table or column", result |-> <<>>]
    ELSE [status |-> "returned", error |-> "", result |-> reply]

\* one call of reason_schema_with_llm
Reason ==
    /\ rsOut.status = "none"
    /\ rsOut' = ReasonSchemaWithLlm(rsIn.schema_slice, rsIn.reply)
    /\ UNCHANGED rsIn

ReaIdle ==
    /\ rsIn = NoReasonerInput
    /\ rsOut = NoReasoning

ReaInit ==
    /\ rsIn \in [schema_slice : Slices, reply : Replies \cup {LLMError}]
    /\ rsOut = NoReasoning

ReaNext ==
    Reason /\ UNCHANGED <<limVars, valVars, schVars, pipVars, cliVars, selVars, grdVars, exeVars,
                          llmVars, genVars>>

(***************************************************************************)
(* Guardrails on their own: GuardrailEngine.guardrail_check on the value   *)
(* EXPLAIN (FORMAT JSON) returns.  A plan object may lack "Plan", and the   *)
(* root node may lack any of its fields.                                    *)
(***************************************************************************)
PlanFields == {"Plan Rows", "Plan Width", "Total Cost", "Node Type"}
NodeTypes == {"Seq Scan", "SEQ SCAN", "seq scan", "Index Scan"}

\* the estimates around the limits of the rules
RowEstimates == {0, RowThreshold \div 10, (RowThreshold \div 10) + 1, RowThreshold,
                 RowThreshold + 1}
CostEstimates == {1, CostThreshold, CostThreshold + 1}

\* root nodes: every field is optional; `has` names the fields the node holds, and
\* a field it does not hold carries no value of its own
PlanWidth == 8
Roots ==
    {root \in [has : SUBSET PlanFields, rows : RowEstimates, width : {PlanWidth},
               cost : CostEstimates, node : NodeTypes] :
        /\ "Plan Rows" \notin root.has => root.rows = 0
        /\ "Total Cost" \notin root.has => root.cost = 1
        /\ "Node Type" \notin root.has => root.node = "Index Scan"}
NoRoot == [has |-> {}, rows |-> 0, width |-> PlanWidth, cost |-> 1, node |-> "Index Scan"]

\* the first element of the EXPLAIN output, with or without "Plan"
PlanObject(root) == [has_plan |-> TRUE, root |-> root]
NoPlanEntry == [has_plan |-> FALSE, root |-> NoRoot]
PlanObjects == {PlanObject(root) : root \in Roots} \cup {NoPlanEntry}

\* rows[0][0] as the driver gives it: the JSON text, or the decoded list
AsText(plan) == [kind |-> "str", value |-> Encode(<<plan>>)]
AsList(plan) == [kind |-> "list", value |-> <<plan>>]
ExplainError == [kind |-> "error", value |-> <<>>]
ExplainResults ==
    {AsText(plan) : plan \in PlanObjects} \cup {AsList(plan) : plan \in PlanObjects}
    \cup {ExplainError}

\* _run_explain, after conn.fetch returned
RunExplain(plan_json) ==
    IF plan_json.kind = "str" THEN Decode(plan_json.value)[1] ELSE plan_json.value[1]

\* root.get(field, default)
\* a lookup that never falls back to the default
GetFiller(root, field, value, default) == value
Get(root, field, value, default) == IF field \in root.has THEN value ELSE default

\* _extract_metrics
ExtractMetrics(plan) ==
    LET root == IF plan.has_plan THEN plan.root ELSE NoRoot
    IN [plan_rows |-> Get(root, "Plan Rows", root.rows, 0),
        plan_width |-> Get(root, "Plan Width", root.width, 0),
        total_cost |-> Get(root, "Total Cost", root.cost, 0),
        node_type |-> Get(root, "Node Type", root.node, "")]

NoMetrics == [plan_rows |-> 0, plan_width |-> 0, total_cost |-> 0, node_type |-> ""]
NoVerdict == [status |-> "none", allowed |-> FALSE, metrics |-> NoMetrics]

GuardrailVerdict(explain) ==
    IF explain = ExplainError
    THEN [status |-> "raised", allowed |-> FALSE, metrics |-> NoMetrics]
    ELSE LET metrics == ExtractMetrics(RunExplain(explain))
         IN [status |-> "returned", allowed |-> ApplyRules(metrics), metrics |-> metrics]

\* one call of guardrail_check
Guard ==
    /\ grOut.status = "none"
    /\ grOut' = GuardrailVerdict(grIn)
    /\ UNCHANGED grIn

GrdIdle ==
    /\ grIn = ExplainError
    /\ grOut = NoVerdict

GrdInit ==
    /\ grIn \in ExplainResults
    /\ grOut = NoVerdict

GrdNext ==
    Guard /\ UNCHANGED <<limVars, valVars, schVars, pipVars, cliVars, selVars, reaVars, exeVars,
                         llmVars, genVars>>

(***************************************************************************)
(* Executor on its own: QueryExecutor.execute_sql.  A row is the list of   *)
(* its (column, value) pairs; times are in milliseconds.                    *)
(***************************************************************************)
MaxRows == 3
StatementTimeoutMs == 2
MsPerSecond == 1000

Rows == {<<<<"id", 1>>>>, <<<<"id", 2>>>>, <<<<"id", 1>>, <<"id", 3>>>>}

\* the timeout_s argument: 0 for None
TimeoutArgs == {0, 1}

\* how long conn.fetch takes
Durations == {0, StatementTimeoutMs - 1, StatementTimeoutMs, StatementTimeoutMs + 1,
              MsPerSecond - 1, MsPerSecond, MsPerSecond + 1}

\* timeout_s or self._cfg.statement_timeout_ms / 1000, in milliseconds
EffectiveTimeout(timeout_s) ==
    IF timeout_s # 0 THEN timeout_s * MsPerSecond ELSE StatementTimeoutMs

\* dict(row): for a repeated column the later value stays
RowDict(row) ==
    [c \in {row[i][1] : i \in 1..Len(row)} |->
        LET last == CHOOSE i \in 1..Len(row) :
                        /\ row[i][1] = c
                        /\ \A j \in (i + 1)..Len(row) : row[j][1] # c
        IN row[last][2]]

\* a sample that keeps every row
SampleAll(rows) == rows

\* rows[: sample_limit]
Sample(rows) == SubSeq(rows, 1, Min(Len(rows), SampleLimit))

NoExecution == [status |-> "none", data |-> <<>>, rows_returned |-> 0, truncated |-> FALSE]

\* asyncio.wait_for: the fetch wins before the timeout, the timer after it; when
\* both are due at the same moment either may win
Fetched(duration, timeout_s) == duration <= EffectiveTimeout(timeout_s)
TimedOut(duration, timeout_s) == duration >= EffectiveTimeout(timeout_s)

ExecutionResult(rows) ==
    LET data == [i \in 1..Len(Sample(rows)) |-> RowDict(Sample(rows)[i])]
    IN [status |-> "success", data |-> data, rows_returned |-> Len(data),
        truncated |-> Len(rows) > Len(data)]

ExecutionTimeout == [status |-> "timeout", data |-> <<>>, rows_returned |-> 0,
                     truncated |-> FALSE]

\* one call of execute_sql
Execute ==
    /\ exOut.status = "none"
    /\ \/ /\ Fetched(exIn.duration, exIn.timeout_s)
          /\ exOut' = ExecutionResult(exIn.rows)
       \/ /\ TimedOut(exIn.duration, exIn.timeout_s)
          /\ exOut' = ExecutionTimeout
    /\ UNCHANGED exIn

NoExecutorInput == [rows |-> <<>>, duration |-> 0, timeout_s |-> 0]

ExeIdle ==
    /\ exIn = NoExecutorInput
    /\ exOut = NoExecution

ExeInit ==
    /\ exIn \in [rows : SeqsUpTo(Rows, MaxRows), duration : Durations, timeout_s : TimeoutArgs]
    /\ exOut = NoExecution

ExeNext ==
    Execute /\ UNCHANGED <<limVars, valVars, schVars, pipVars, cliVars, selVars, reaVars, grdVars,
                           llmVars, genVars>>

(***************************************************************************)
(* LLM client on its own: OpenAIClient.complete_json under tenacity's      *)
(* AsyncRetrying(stop_after_attempt, wait_exponential, retry on LLMError,   *)
(* reraise).  One call, made by the reasoner or by the synthesizer.         *)
(***************************************************************************)
MaxAttempts == 3
WaitMin == 1
WaitMax == 5

Callers == {"reasoner", "synthesizer"}

\* LLMConfig: the attempts of reasoner_retry_config and synthesizer_retry_config
RetryConfigs == [reasoner : 1..MaxAttempts, synthesizer : 1..MaxAttempts]

\* wait_exponential raises 2 to attempt_number - 1, or to attempt_number in older
\* releases of the library
ExponentOffsets == {0, 1}

RECURSIVE Pow2(_)
Pow2(n) == IF n <= 0 THEN 1 ELSE 2 * Pow2(n - 1)

Max(a, b) == IF a >= b THEN a ELSE b

\* wait_exponential(multiplier=1, min=1, max=5) after the attempt_number-th failure
WaitExponential(attempt_number, offset) ==
    Max(WaitMin, Min(Pow2(attempt_number - 1 + offset), WaitMax))

\* stop_after_attempt(...): the number of attempts after which a failure is final
StopAfterAttempt(cfg, caller) == cfg.reasoner

NoRun == [status |-> "idle", attempts |-> 0, waits |-> <<>>, error |-> ""]
NoLlmInput == [cfg |-> [reasoner |-> 1, synthesizer |-> 1], caller |-> "reasoner", offset |-> 0]

\* the HTTP call of an attempt ends in LLMError (status >= 400, unexpected shape,
\* invalid JSON): retried unless it was the last attempt
AttemptFails ==
    /\ llRun.status = "calling"
    /\ LET n == llRun.attempts + 1 IN
       IF n >= StopAfterAttempt(llIn.cfg, llIn.caller)
       THEN llRun' = [llRun EXCEPT !.attempts = n, !.status = "raised", !.error = "LLMError"]
       ELSE llRun' = [llRun EXCEPT !.attempts = n, !.status = "waiting",
                                   !.waits = Append(@, WaitExponential(n, llIn.offset))]
    /\ UNCHANGED llIn

\* the attempt returns the decoded JSON content
AttemptReturns ==
    /\ llRun.status = "calling"
    /\ llRun' = [llRun EXCEPT !.attempts = @ + 1, !.status = "returned"]
    /\ UNCHANGED llIn

\* the attempt raises something else (a transport error): not retried
AttemptBreaks ==
    /\ llRun.status = "calling"
    /\ llRun' = [llRun EXCEPT !.attempts = @ + 1, !.status = "raised", !.error = "other"]
    /\ UNCHANGED llIn

\* the backoff sleep is over
BackoffOver ==
    /\ llRun.status = "waiting"
    /\ llRun' = [llRun EXCEPT !.status = "calling"]
    /\ UNCHANGED llIn

\* complete_json is called
CompleteJson ==
    /\ llRun.status = "idle"
    /\ llRun' = [llRun EXCEPT !.status = "calling"]
    /\ UNCHANGED llIn

LlmIdle ==
    /\ llIn = NoLlmInput
    /\ llRun = NoRun

LlmInit ==
    /\ llIn \in [cfg : RetryConfigs, caller : Callers, offset : ExponentOffsets]
    /\ llRun = NoRun

LlmOthers ==
    UNCHANGED <<limVars, valVars, schVars, pipVars, cliVars, selVars, reaVars, grdVars, exeVars,
                genVars>>

LlmNext ==
    \/ CompleteJson /\ LlmOthers
    \/ AttemptFails /\ LlmOthers
    \/ AttemptReturns /\ LlmOthers
    \/ AttemptBreaks /\ LlmOthers
    \/ BackoffOver /\ LlmOthers

(***************************************************************************)
(* SQL generator on its own: SQLGenerator.generate for a reasoner output   *)
(* that passed the bounds check.  The statement is kept clause by clause:  *)
(* the select list, the base table and the joins of the FROM clause.       *)
(***************************************************************************)
MaxSelectColumns == 5

\* the tables of the slice; each has the columns named below
GenTables == {"public.a", "public.b", "public.c"}
ColumnLists == {<<>>, <<"id">>, <<"c1", "c2", "c3", "c4", "c5", "c6">>}

\* schema_context: table -> its "columns" list (the empty list where the table is absent)
GenContexts == [GenTables -> ColumnLists]

GenForeignKeys ==
    {<<>>,
     <<<<"public.a", "id", "public.b", "id">>>>,
     <<<<"public.b", "id", "public.a", "id">>>>,
     <<<<"public.a", "id", "public.b", "id">>,
       <<"public.c", "id", "public.b", "id">>>>}

\* table_columns[:5]
Take(items, n) == SubSeq(items, 1, Min(Len(items), n))

SelectColumn(table, column) == [table |-> table, column |-> column]
Star == <<SelectColumn("", "*")>>

\* _build_select_columns
RECURSIVE BuildSelectColumnsOf(_, _)
BuildSelectColumnsOf(schema_context, tables) ==
    IF tables = <<>> THEN <<>>
    ELSE LET table == Head(tables)
             table_columns == Take(schema_context[table], MaxSelectColumns)
         IN [i \in 1..Len(table_columns) |-> SelectColumn(table, table_columns[i])]
            \o BuildSelectColumnsOf(schema_context, Tail(tables))

BuildSelectColumns(schema_context, relevant_tables) ==
    LET columns == BuildSelectColumnsOf(schema_context, relevant_tables)
    IN IF columns = <<>> THEN Star ELSE columns

Members(items) == {items[i] : i \in 1..Len(items)}

\* LEFT JOIN {right_table} ON {left_table}.{left_col} = {right_table}.{right_col}
LeftJoin(fk) ==
    [right_table |-> fk[3], left_table |-> fk[1], left_col |-> fk[2], right_col |-> fk[4]]

\* _build_from_clause: the loop over foreign_keys_map
RECURSIVE BuildJoins(_, _)
BuildJoins(relevant_tables, foreign_keys_map) ==
    IF foreign_keys_map = <<>> THEN <<>>
    ELSE LET fk == Head(foreign_keys_map)
             rest == BuildJoins(relevant_tables, Tail(foreign_keys_map))
         IN IF fk[1] \in Members(relevant_tables) /\ fk[3] \in Members(relevant_tables)
            THEN <<LeftJoin(fk)>> \o rest
            ELSE rest

NoStatement == [status |-> "none", select_cols |-> <<>>, base |-> "", joins |-> <<>>,
                limit |-> 0]
NoGeneratorInput ==
    [schema_context |-> [t \in GenTables |-> <<>>], relevant_tables |-> <<>>,
     foreign_keys_map |-> <<>>]

\* generate: select list, FROM clause (ValueError without tables), _compose_sql
GenerateSql(schema_context, relevant_tables, foreign_keys_map) ==
    IF relevant_tables = <<>>
    THEN [NoStatement EXCEPT !.status = "raised"]
    ELSE [status |-> "returned",
          select_cols |-> BuildSelectColumns(schema_context, relevant_tables),
          base |-> relevant_tables[1],
          joins |-> BuildJoins(relevant_tables, foreign_keys_map),
          limit |-> SampleLimit]

\* one call of generate
Generate ==
    /\ gnOut.status = "none"
    /\ gnOut' = GenerateSql(gnIn.schema_context, gnIn.relevant_tables, gnIn.foreign_keys_map)
    /\ UNCHANGED gnIn

GenIdle ==
    /\ gnIn = NoGeneratorInput
    /\ gnOut = NoStatement

GenInit ==
    /\ gnIn \in [schema_context : GenContexts,
                 relevant_tables : SeqsUpTo(GenTables, MaxRelevant),
                 foreign_keys_map : GenForeignKeys]
    /\ gnOut = NoStatement

GenNext ==
    Generate /\ UNCHANGED <<limVars, valVars, schVars, pipVars, cliVars, selVars, reaVars, grdVars,
                            exeVars, llmVars>>

Init ==
    /\ LimInit /\ ValInit /\ SchInit /\ PipInit /\ CliInit
    /\ SelIdle /\ ReaIdle /\ GrdIdle /\ ExeIdle /\ LlmIdle /\ GenIdle

\* Each specification fixes the configuration its subsystem does not read.
LimiterInit == Init /\ limitArg = "expression"
SpecLimiter == LimiterInit /\ [][LimNext]_vars

ValidatorInit == Init /\ enableRateLimiting = TRUE
SpecValidator == ValidatorInit /\ [][ValNext]_vars

SchemaInit == Init /\ enableRateLimiting = TRUE /\ limitArg = "expression"
SpecSchema == SchemaInit /\ [][SchNext]_vars

PipelineInit == Init /\ enableRateLimiting = TRUE
SpecPipeline == PipelineInit /\ [][PipNext]_vars

CacheInit == Init /\ enableRateLimiting = TRUE /\ limitArg = "expression"
SpecCache == CacheInit /\ [][CliNext]_vars

\* the application as constructed, with the configuration fixed
AppInit ==
    /\ LimInit /\ ValInit /\ SchInit /\ PipInit /\ CliInit
    /\ enableRateLimiting = TRUE
    /\ limitArg = "expression"

SliceInit == AppInit /\ SelInit /\ ReaIdle /\ GrdIdle /\ ExeIdle /\ LlmIdle /\ GenIdle
SpecSlice == SliceInit /\ [][SelNext]_vars

ReasonerInit == AppInit /\ SelIdle /\ ReaInit /\ GrdIdle /\ ExeIdle /\ LlmIdle /\ GenIdle
SpecReasoner == ReasonerInit /\ [][ReaNext]_vars

GuardrailsInit == AppInit /\ SelIdle /\ ReaIdle /\ GrdInit /\ ExeIdle /\ LlmIdle /\ GenIdle
SpecGuardrails == GuardrailsInit /\ [][GrdNext]_vars

ExecutorInit == AppInit /\ SelIdle /\ ReaIdle /\ GrdIdle /\ ExeInit /\ LlmIdle /\ GenIdle
SpecExecutor == ExecutorInit /\ [][ExeNext]_vars

LlmClientInit ==
    AppInit /\ SelIdle /\ ReaIdle /\ GrdIdle /\ ExeIdle /\ LlmInit /\ GenIdle
SpecLlmClient == LlmClientInit /\ [][LlmNext]_vars

GeneratorInit ==
    AppInit /\ SelIdle /\ ReaIdle /\ GrdIdle /\ ExeIdle /\ LlmIdle /\ GenInit
SpecGenerator == GeneratorInit /\ [][GenNext]_vars

(***************************************************************************)
(* Properties of the rate limiter.                                         *)
(***************************************************************************)

\* C1: with rate limiting enabled, an allow(k) that finds W = max_requests_per_minute
\* admitted calls of k inside the 60-second window ending at its `now` returns false,
\* and under every interleaving no 60-second window holds more than W admitted calls
\* of one key.
C1_WindowNeverExceeded ==
    /\ \A c \in Clients :
          (lres[c].done /\ enableRateLimiting /\ lres[c].seen >= MaxRequestsPerMinute)
             => ~lres[c].ok
    /\ \A k \in Keys : \A t \in {admitted[k][i] : i \in DOMAIN admitted[k]} :
          /\ AdmittedInWindow(k, t) <= MaxRequestsPerMinute
          /\ AdmittedInWindow(k, t + Window) <= MaxRequestsPerMinute

\* C1 witness: a call returned false after W calls of its key were admitted in the window.
C1_Witness ==
    \E c \in Clients :
        /\ lres[c].done /\ ~lres[c].ok
        /\ lres[c].seen = MaxRequestsPerMinute
        /\ Len(admitted[lres[c].key]) >= MaxRequestsPerMinute

\* C2 as stated: an allow(k) that comes 60 s or more after the previous allow(k)
\* returns true.
C2_AsStated ==
    \A c \in Clients : (lres[c].done /\ lres[c].gap >= Window) => lres[c].ok

\* C2 amended: an allow(k) that comes more than 60 s after the previous allow(k)
\* returns true, from any limiter state including a full deque.
C2_QuiescenceReadmits ==
    \A c \in Clients : (lres[c].done /\ lres[c].gap > Window) => lres[c].ok

\* C2 witness: a call found a full deque, came more than 60 s after the last call of
\* its key, and returned true.
C2_Witness ==
    \E c \in Clients :
        /\ lres[c].done /\ lres[c].ok
        /\ lres[c].gap > Window
        /\ lres[c].held = MaxRequestsPerMinute

(***************************************************************************)
(* Properties of the SQL validator.                                        *)
(***************************************************************************)
Validated == vRes.status # "none"

\* the tree of the text that was validated, as the installed sqlglot parses it
InputTree == ParseOne(vIn, limitArg)

\* the count of a LIMIT clause that was parsed from text
LimitCount(limit) == IF limitArg = "this" THEN limit.this ELSE limit.expression

\* the tree holds a function node whose lower-cased name is on the denylist
NamesDisallowedFunction(ast) ==
    \E node \in {ast.proj, ast.where} :
        node.t = "Anonymous" /\ Lower(node.s) \in DisallowedFunctions

\* the text ends with LIMIT n
EndsWithLimit(toks, n) ==
    Len(toks) >= 2 /\ toks[Len(toks) - 1] = KW("LIMIT") /\ toks[Len(toks)] = NUM(n)


\* C3: re-parsing the text validate_and_sanitize returned yields a top-level SELECT with
\* a FROM clause and a numeric LIMIT whose value is at most max_limit.
C3_ReparseIsBoundedSelect ==
    vRes.status = "ok" =>
        LET again == ParseOne(vRes.sql, limitArg)
        IN  /\ again.ok
            /\ again.ast.kind = "Select"
            /\ again.ast.from # Absent
            /\ again.ast.limit.present
            /\ LimitCount(again.ast.limit).t = "Literal"
            /\ LimitCount(again.ast.limit).n <= MaxLimit

\* C4: for a SELECT with FROM (and no denylisted function): without LIMIT the result ends
\* with LIMIT max_limit; with a numeric literal n it ends with LIMIT min(n, max_limit) and
\* a literal above max_limit no longer appears; with a non-literal count the call fails
\* with NonLiteralLimit.
C4_LimitHandling ==
    LET a == InputTree.ast
        count == LimitCount(a.limit)
    IN  (/\ Validated /\ InputTree.ok
         /\ a.kind = "Select" /\ a.from # Absent
         /\ ~NamesDisallowedFunction(a))
        => IF ~a.limit.present
           THEN vRes.status = "ok" /\ EndsWithLimit(vRes.sql, MaxLimit)
           ELSE IF count.t = "Literal"
           THEN /\ vRes.status = "ok"
                /\ EndsWithLimit(vRes.sql, Min(count.n, MaxLimit))
                /\ (count.n > MaxLimit => \A i \in DOMAIN vRes.sql : vRes.sql[i] # NUM(count.n))
           ELSE vRes = Raised("NonLiteralLimit")

\* C5: a statement whose top-level node is not a SELECT fails with NotSelect and a
\* top-level SELECT without FROM fails with MissingFrom; neither returns SQL.
C5_SelectOnlyAndFrom ==
    (Validated /\ InputTree.ok) =>
        /\ (InputTree.ast.kind # "Select" => vRes = Raised("NotSelect"))
        /\ (InputTree.ast.kind = "Select" /\ InputTree.ast.from = Absent
               => vRes = Raised("MissingFrom"))

\* C5 witness: DELETE FROM users was rejected as NotSelect.
C5_Witness ==
    /\ vIn = <<KW("DELETE"), KW("FROM"), ID("users")>>
    /\ vRes = Raised("NotSelect")

\* C6 as stated: every SQL whose tree holds a denylisted function node is rejected with
\* the kind DisallowedFunction.
C6_AsStated ==
    (Validated /\ InputTree.ok /\ NamesDisallowedFunction(InputTree.ast))
        => vRes = Raised("DisallowedFunction")

\* C6 amended: every SQL whose tree holds a denylisted function node is rejected, with
\* the kind of the first check that fails in the order of the code: NotSelect for a
\* non-SELECT, else MissingFrom without FROM (SELECT pg_sleep(1) is this case), else
\* NonLiteralLimit or DisallowedFunction; a SELECT with FROM and no LIMIT clause is
\* rejected as DisallowedFunction, one with a bind-parameter LIMIT as NonLiteralLimit.
C6_DenylistedFunctionRejected ==
    LET a == InputTree.ast
    IN  (Validated /\ InputTree.ok /\ NamesDisallowedFunction(a)) =>
           /\ vRes.status = "error" /\ vRes.sql = <<>>
           /\ (a.kind # "Select" => vRes.kind = "NotSelect")
           /\ (a.kind = "Select" /\ a.from = Absent => vRes.kind = "MissingFrom")
           /\ (vIn = <<KW("SELECT"), CALL("pg_sleep")>> => vRes.kind = "MissingFrom")
           /\ (a.kind = "Select" /\ a.from # Absent
                 => vRes.kind \in {"NonLiteralLimit", "DisallowedFunction"})
           /\ (a.kind = "Select" /\ a.from # Absent /\ ~a.limit.present
                 => vRes.kind = "DisallowedFunction")
           /\ (a.kind = "Select" /\ a.from # Absent /\ LimitCount(a.limit).t = "Parameter"
                 => vRes.kind = "NonLiteralLimit")

\* C6 witness: SELECT PG_SLEEP(1) FROM users was rejected as DisallowedFunction.
C6_Witness ==
    /\ vIn = <<KW("SELECT"), CALL("PG_SLEEP"), KW("FROM"), ID("users")>>
    /\ vRes = Raised("DisallowedFunction")

(***************************************************************************)
(* Properties of the schema snapshot stage.                                *)
(***************************************************************************)
SnapshotStage == {"cache_get", "schema_lock", "ext_check", "ext_lock", "ext_recheck",
                  "collecting", "cache_set"}

\* request r has returned from _get_schema_snapshot with a snapshot
Received(r) == rpc[r] \notin (SnapshotStage \cup {"idle"}) /\ rsnap[r] # EmptySnapshot

Refreshers == {r \in Reqs : rpc[r] # "idle" /\ rrefresh[r]}
NonRefreshers == {r \in Reqs : rpc[r] # "idle" /\ ~rrefresh[r]}

\* at most one _collect is in flight
OneCollectInFlight == Cardinality({r \in Reqs : rpc[r] = "collecting"}) <= 1

StageEvents == <<"guardrails", "execute", "synthesize", "audit">>
IsStageEvent(e) == \E i \in DOMAIN StageEvents : StageEvents[i] = e
StageLog(r) == SelectSeq(rq[r].log, IsStageEvent)
IsPrefix(a, b) == Len(a) <= Len(b) /\ a = SubSeq(b, 1, Len(a))
Logged(r, e) == \E i \in DOMAIN rq[r].log : rq[r].log[i] = e
Audited(r) == \E i \in DOMAIN auditLog : auditLog[i].id = rq[r].id

\* the guardrail check of request r returned allowed=false
Rejected(r) == rq[r].plan # NoPlan /\ ~rq[r].allowed

\* C9: within every request the guardrail verdict comes before execution, completed
\* execution before synthesis, successful synthesis before the audit entry; and a
\* request is at or past execution only with a verdict allowed=true on the very SQL
\* that is executed.
C9_StageOrder ==
    \A r \in Reqs :
        /\ IsPrefix(StageLog(r), StageEvents)
        /\ (rpc[r] = "execution" \/ rq[r].executed # NoSql)
              => /\ rq[r].allowed
                 /\ Logged(r, "guardrails")
                 /\ rq[r].explained # NoSql
                 /\ ExecutedSql(rq[r]) = rq[r].explained
        /\ rq[r].executed # NoSql => rq[r].executed = rq[r].explained
        /\ (rpc[r] = "synthesis" \/ rq[r].synthesized # NoSql) => Logged(r, "execute")
        /\ (rq[r].id # 0 /\ Audited(r)) => Logged(r, "synthesize")

\* C9 witness: a request went through all the stages and its audit entry is written.
C9_Witness ==
    \E r \in Reqs :
        /\ rpc[r] = "responded"
        /\ StageLog(r) = StageEvents
        /\ Audited(r)
        /\ rq[r].executed = rq[r].explained /\ rq[r].executed # NoSql

\* one step of request r, and what its rejection amounts to
StepOf(r) == <<rq[r], rpc[r]>>' # <<rq[r], rpc[r]>>
RejectionOf(r) == ~Rejected(r) /\ Rejected(r)'

\* C10: the step in which the guardrail check returns allowed=false increments the
\* `rejected` counter and no other, and writes no audit entry; the request has then
\* failed without its SQL having been executed or synthesized or an audit entry
\* written, and no later step of it touches a counter or the audit log.
C10_RejectionStopsRequest ==
    /\ [](\A r \in Reqs :
             Rejected(r) => /\ rpc[r] = "failed"
                            /\ HttpStatus(r) = 500
                            /\ rq[r].executed = NoSql
                            /\ rq[r].synthesized = NoSql
                            /\ ~Audited(r)
                            /\ counters["rejected"] >= 1)
    /\ [][\A r \in Reqs :
             /\ RejectionOf(r) => /\ counters' = [counters EXCEPT !["rejected"] = @ + 1]
                                  /\ auditLog' = auditLog
             /\ (Rejected(r) /\ StepOf(r)) => /\ counters' = counters
                                              /\ auditLog' = auditLog]_vars

\* C10 witness: a request was rejected by the guardrails while another one was served.
C10_Witness ==
    \E r \in Reqs :
        /\ Rejected(r)
        /\ rpc[r] = "failed"
        /\ counters["rejected"] = 1
        /\ counters["success"] = 1

\* the rate limiter denied request r
Denied(r) == rpc[r] = "rate_limited"
DenialOf(r) == ~Denied(r) /\ Denied(r)'

\* the SQL a request ever held, generated, sent to EXPLAIN, executed or synthesized
SqlOf(r) == {rq[r].primary, rq[r].sql, rq[r].explained, rq[r].executed, rq[r].synthesized}

\* C11: the step in which the rate limiter denies a request increments the
\* `rate_limited` counter and no other, writes no audit entry and leaves cache,
\* extractor and their locks alone; the request ends as HTTP 429 having held no
\* snapshot, no SQL and no plan, and no later step of it touches counters, audit log,
\* cache or extractor.
C11_DeniedRequestDoesNothing ==
    /\ [](\A r \in Reqs :
             Denied(r) => /\ HttpStatus(r) = 429
                          /\ rq[r].log = <<"rate_limited">>
                          /\ SqlOf(r) = {NoSql}
                          /\ rq[r].plan = NoPlan
                          /\ rsnap[r] = EmptySnapshot /\ rcollects[r] = 0
                          /\ ~Audited(r)
                          /\ counters["rate_limited"] >= 1)
    /\ [][\A r \in Reqs :
             /\ DenialOf(r) => /\ counters' = [counters EXCEPT !["rate_limited"] = @ + 1]
                               /\ auditLog' = auditLog
                               /\ UNCHANGED schShared
             /\ (Denied(r) /\ StepOf(r)) => /\ counters' = counters
                                            /\ auditLog' = auditLog
                                            /\ UNCHANGED schShared]_vars

\* C11 witness: a request was denied after its key's budget was used up by requests
\* that were admitted.
C11_Witness ==
    \E r \in Reqs :
        /\ Denied(r)
        /\ counters["rate_limited"] = 1
        /\ Len(requests[rq[r].user_key]) = MaxRequestsPerMinute

\* request r, past the rate limiter, fails in this step
FailureOf(r) == rpc[r] \notin {"idle", "failed"} /\ rpc'[r] = "failed"

\* C12: every step in which a request that passed the rate limiter fails (at the
\* snapshot, reasoner, generation, validation, EXPLAIN, execution or synthesis stage)
\* increments the `failed` counter and leaves `rate_limited` alone.
C12_FailureCountsAsFailed ==
    [][\A r \in Reqs :
          FailureOf(r) => /\ counters'["failed"] = counters["failed"] + 1
                          /\ counters'["rate_limited"] = counters["rate_limited"]]_vars

\* C13: a request whose stages through synthesis succeeded and whose audit write
\* raised an I/O error still returns the successful response, HTTP 200.
C13_AuditErrorSwallowed ==
    \A r \in Reqs :
        Logged(r, "audit_error") => rpc[r] = "responded" /\ HttpStatus(r) = 200

\* the lines of the audit log written for request r
LinesOf(r) == {i \in DOMAIN auditLog : auditLog[i].id = rq[r].id}

\* request r returns its successful Response in this step
ResponseOf(r) == rpc[r] # "responded" /\ rpc'[r] = "responded"

\* C14: the audit log only grows, by one line at its end, in the very steps in which
\* a request returns its successful Response; so it holds exactly one line for each
\* request that returned a successful Response and none for a rate-limited, rejected
\* or failed request, and its earlier lines stay as they were written.
C14_AuditAppendOnly ==
    /\ [](/\ \A i, j \in DOMAIN auditLog : auditLog[i].id = auditLog[j].id => i = j
          /\ \A r \in Reqs :
                /\ rpc[r] = "responded" => Cardinality(LinesOf(r)) = 1
                /\ rpc[r] # "responded" => LinesOf(r) = {})
    /\ [][/\ \/ auditLog' = auditLog
             \/ \E r \in Reqs :
                   /\ ResponseOf(r)
                   /\ Len(auditLog') = Len(auditLog) + 1
                   /\ SubSeq(auditLog', 1, Len(auditLog)) = auditLog
                   /\ auditLog'[Len(auditLog')].id = rq[r].id
          /\ \A r \in Reqs : ResponseOf(r) => Len(auditLog') = Len(auditLog) + 1]_vars

\* C14 witness: two requests were served and have their lines, a third was denied.
C14_Witness ==
    /\ Len(auditLog) = 2
    /\ counters["rate_limited"] = 1
    /\ \E r \in Reqs : rpc[r] = "responded" /\ Cardinality(LinesOf(r)) = 1
    /\ \E r \in Reqs : Denied(r) /\ LinesOf(r) = {}

(***************************************************************************)
(* Cache client                                                            *)
(***************************************************************************)
\* the latest call was a get_json that returned while the client is unavailable
GotWhileUnavailable ==
    /\ ccLast.op = "get_json"
    /\ ccLast.outcome = "returned"
    /\ ccUnavailable

\* C15 as stated: when the remote store is unavailable, get_json(k) returns the
\* value of the most recent set_json(k, v, ttl), whichever store that set reached.
C15_AsStated ==
    GotWhileUnavailable => ccLast.result = ccSet[ccLast.key]

\* C15 (amended): once the client is unavailable, get_json(k) returns the value of
\* the most recent set_json(k, ...) that ended in the fallback map (one made while
\* the client was unavailable, or the one whose remote error caused the downgrade),
\* and None if there was none, even if k was set while the remote store answered;
\* the fallback map holds, key by key, exactly those values, so sets on other keys
\* do not matter.
C15_FallbackSetThenGet ==
    /\ ccFallback = ccSetLocal
    /\ GotWhileUnavailable => ccLast.result = ccSetLocal[ccLast.key]
    /\ \A k \in CacheKeys : ccSetLocal[k] # Missing => ccUnavailable

\* a get that does not contact the remote store returns the value set for its key
\* through the fallback, while another key, which also has an entry in the remote
\* store, holds a different value in the fallback
C15_Witness ==
    /\ GotWhileUnavailable
    /\ ~ccLast.contacted
    /\ ccLast.result \in CacheValues
    /\ \E k \in CacheKeys \ {ccLast.key} :
          /\ ccSetLocal[k] \in CacheValues \ {ccLast.result}
          /\ ccStore[k].present

\* C16: a failure of the remote store during connect, get_json or set_json is never
\* raised to the caller of get_json / set_json: the call returns, having used the
\* fallback map, and a call that finds the client unavailable does not contact the
\* remote store.
C16_RemoteFailureNeverRaised ==
    ccLast.op \in {"get_json", "set_json"} =>
        /\ ccLast.outcome = "returned"
        /\ ccLast.unavailable => ~ccLast.contacted

(***************************************************************************)
(* Schema slicer                                                           *)
(***************************************************************************)
\* the ranked ids the snapshot holds, in ranked order
PresentIds == SelectSeq(slIn.table_ids, LAMBDA t : slIn.snapshot.tables[t] # NoMeta)

\* the serialized size of the first n of them, and of a set of tables
RECURSIVE PrefixBytes(_)
PrefixBytes(n) ==
    IF n = 0 THEN 0 ELSE PrefixBytes(n - 1) + JsonBytes(slIn.snapshot.tables[PresentIds[n]])

RECURSIVE SetBytes(_)
SetBytes(T) ==
    IF T = {} THEN 0
    ELSE LET t == CHOOSE x \in T : TRUE
         IN JsonBytes(slIn.snapshot.tables[t]) + SetBytes(T \ {t})

\* the length of the longest prefix that stays within the budget
FittingPrefix ==
    CHOOSE n \in 0..Len(PresentIds) :
        /\ PrefixBytes(n) <= slIn.budget
        /\ \A m \in (n + 1)..Len(PresentIds) : PrefixBytes(m) > slIn.budget

\* C17: select_schema_slice includes exactly the longest prefix of the ranked ids
\* present in the snapshot whose cumulative serialized size stays within
\* max_schema_slice_bytes, each with the snapshot's meta; the sizes of the included
\* metas sum to at most the budget, and no table after the first one that would
\* exceed it is included.
C17_LongestPrefixWithinBudget ==
    slOut.status = "returned" =>
        /\ DOMAIN slOut.tables = {PresentIds[i] : i \in 1..FittingPrefix}
        /\ \A t \in DOMAIN slOut.tables : slOut.tables[t] = slIn.snapshot.tables[t]
        /\ SetBytes(DOMAIN slOut.tables) <= slIn.budget
        /\ \A j \in (FittingPrefix + 1)..Len(PresentIds) :
              PresentIds[j] \in DOMAIN slOut.tables =>
                  \E i \in 1..FittingPrefix : PresentIds[i] = PresentIds[j]

\* a slice that holds a table, stops at one that does not fit and leaves out a
\* later one that would still have fitted
C17_Witness ==
    /\ slOut.status = "returned"
    /\ FittingPrefix >= 1
    /\ FittingPrefix + 2 <= Len(PresentIds)
    /\ PresentIds[FittingPrefix + 2] \notin DOMAIN slOut.tables
    /\ PrefixBytes(FittingPrefix)
         + JsonBytes(slIn.snapshot.tables[PresentIds[FittingPrefix + 2]]) <= slIn.budget

(***************************************************************************)
(* Reasoner                                                                *)
(***************************************************************************)
\* the tables and the table-column pairs an accepted output names
NamedTables(result) ==
    {result.relevant_tables.items[i] : i \in 1..Len(result.relevant_tables.items)}
    \cup DOMAIN result.schema_context
    \cup UNION {{fk[1], fk[3]} : fk \in {result.foreign_keys_map[i] :
                                            i \in 1..Len(result.foreign_keys_map)}}

NamedColumns(result) ==
    UNION {{<<t, result.schema_context[t][i]>> : i \in 1..Len(result.schema_context[t])} :
              t \in DOMAIN result.schema_context}
    \cup UNION {{<<fk[1], fk[2]>>, <<fk[3], fk[4]>>} :
                   fk \in {result.foreign_keys_map[i] : i \in 1..Len(result.foreign_keys_map)}}

\* C18: every table and column named by an output that reason_schema_with_llm
\* accepts (in relevant_tables, schema_context and the tuples of foreign_keys_map)
\* belongs to the slice, and an accepted output passed structural validation.
C18_AcceptedOutputWithinSlice ==
    rsOut.status = "returned" =>
        /\ StructuralErrors(rsOut.result) = {}
        /\ NamedTables(rsOut.result) \subseteq DOMAIN rsIn.schema_slice
        /\ \A tc \in NamedColumns(rsOut.result) :
              /\ tc[1] \in DOMAIN rsIn.schema_slice
              /\ tc[2] \in rsIn.schema_slice[tc[1]]

(***************************************************************************)
(* Guardrails                                                              *)
(***************************************************************************)
\* the root node the engine was given
GivenRoot ==
    LET plan == IF grIn.kind = "str" THEN grIn.value[2][1] ELSE grIn.value[1]
    IN IF plan.has_plan THEN plan.root ELSE NoRoot

\* a rule fires on the metrics
RowsRuleFires(m) == m.plan_rows > RowThreshold
CostRuleFires(m) == m.total_cost > CostThreshold
SeqScanRuleFires(m) ==
    /\ m.node_type \in {"seq scan", "Seq Scan", "SEQ SCAN"}
    /\ 10 * m.plan_rows > RowThreshold

\* C19: guardrail_check returns allowed = false exactly when a rule fires on the
\* root node (plan_rows > row_threshold, total_cost > cost_threshold, or a seq
\* scan in any letter case with plan_rows > row_threshold / 10), values equal to a
\* threshold being allowed, and returns the root node's metrics with either
\* verdict; an EXPLAIN error is raised.
C19_VerdictIffRuleFires ==
    /\ grOut.status = "raised" => grIn = ExplainError
    /\ grOut.status = "returned" =>
          /\ grIn # ExplainError
          /\ grOut.allowed = ~(\/ RowsRuleFires(grOut.metrics)
                               \/ CostRuleFires(grOut.metrics)
                               \/ SeqScanRuleFires(grOut.metrics))
          /\ "Plan Rows" \in GivenRoot.has => grOut.metrics.plan_rows = GivenRoot.rows
          /\ "Plan Width" \in GivenRoot.has => grOut.metrics.plan_width = GivenRoot.width
          /\ "Total Cost" \in GivenRoot.has => grOut.metrics.total_cost = GivenRoot.cost
          /\ "Node Type" \in GivenRoot.has => grOut.metrics.node_type = GivenRoot.node

\* a plan at both thresholds is allowed
C19_Witness ==
    /\ grOut.status = "returned"
    /\ grOut.allowed
    /\ grOut.metrics.plan_rows = RowThreshold
    /\ grOut.metrics.total_cost = CostThreshold
    /\ grOut.metrics.node_type = "Index Scan"

(***************************************************************************)
(* Executor                                                                *)
(***************************************************************************)
\* C20: for a result set of n rows execute_sql returns the first
\* min(n, sample_limit) rows in order, rows_returned = min(n, sample_limit) and
\* truncated = true iff n > sample_limit; a fetch that does not finish within the
\* timeout fails with a timeout and returns no data, and one that finishes before
\* the timeout returns.
C20_SampleAndTimeout ==
    LET n == Len(exIn.rows)
        timeout == IF exIn.timeout_s = 0 THEN StatementTimeoutMs
                   ELSE exIn.timeout_s * MsPerSecond
    IN /\ exOut.status = "success" =>
             /\ exIn.duration <= timeout
             /\ Len(exOut.data) = Min(n, SampleLimit)
             /\ \A i \in 1..Len(exOut.data) :
                   \A j \in 1..Len(exIn.rows[i]) :
                       /\ exIn.rows[i][j][1] \in DOMAIN exOut.data[i]
                       /\ (\A k \in (j + 1)..Len(exIn.rows[i]) :
                              exIn.rows[i][k][1] # exIn.rows[i][j][1])
                          => exOut.data[i][exIn.rows[i][j][1]] = exIn.rows[i][j][2]
             /\ exOut.rows_returned = Min(n, SampleLimit)
             /\ exOut.truncated = (n > SampleLimit)
       /\ exOut.status = "timeout" =>
             /\ exIn.duration >= timeout
             /\ exOut.data = <<>>
       /\ exOut.status \in {"none", "success", "timeout"}

\* a truncated result
C20_Witness ==
    /\ exOut.status = "success"
    /\ Len(exIn.rows) > SampleLimit
    /\ exOut.truncated
    /\ exOut.rows_returned = SampleLimit

(***************************************************************************)
(* Connection pool                                                         *)
(***************************************************************************)
\* the requests in flight: from get_connection's acquire to its finally
InFlight == {r \in Handlers : rpc[r] # "idle"}

\* C21: the connection acquired for a request is checked out for as long as the
\* request is in flight and is back in the pool once the request has left on any
\* exit path (response, rate-limit rejection, guardrail rejection, failure of a
\* stage): the connections checked out are exactly those of the requests in flight,
\* never more than the pool holds, and none when no request is in flight.
C21_ConnectionReleasedOnEveryExit ==
    /\ poolOut = InFlight
    /\ Cardinality(poolOut) <= MaxPoolSize
    /\ InFlight = {} => poolOut = {}

\* no request is in flight and nothing is checked out after a response, a
\* rate-limit rejection and a guardrail rejection have each been sent
C21_Witness ==
    /\ InFlight = {}
    /\ poolOut = {}
    /\ counters["success"] >= 1
    /\ counters["rate_limited"] >= 1
    /\ counters["rejected"] >= 1

(***************************************************************************)
(* Candidate SQL                                                           *)
(***************************************************************************)
\* the audit entries written for request r
EntriesOf(r) == {auditLog[i] : i \in LinesOf(r)}

\* C22: the string validate_and_sanitize returned for plans[0].sql is the string
\* sent to EXPLAIN, executed, passed to the synthesizer, written to the audit entry
\* and returned in the response; no other stage changes it, and the raw SQL of the
\* generator is never explained or executed.
C22_SanitizedSqlEverywhere ==
    \A r \in Reqs :
        /\ rq[r].sql # NoSql =>
              /\ rq[r].primary = GeneratedSql
              /\ rq[r].sql = ValidateAndSanitize(rq[r].primary, limitArg).sql
        /\ \A used \in {rq[r].explained, rq[r].executed, rq[r].synthesized, rq[r].returned} :
              used # NoSql => used = rq[r].sql /\ used # rq[r].primary
        /\ rq[r].id # 0 => \A entry \in EntriesOf(r) : entry.sql = rq[r].sql
        /\ rpc[r] = "responded" => rq[r].returned = rq[r].sql /\ rq[r].executed = rq[r].sql

\* a served request whose sanitized SQL differs from what the generator wrote
C22_Witness ==
    \E r \in Reqs :
        /\ rpc[r] = "responded"
        /\ rq[r].returned # NoSql
        /\ rq[r].returned # rq[r].primary
        /\ rq[r].explained = rq[r].returned
        /\ \E entry \in EntriesOf(r) : entry.sql = rq[r].returned

\* the foreign keys of the snapshot whose two tables are both in the returned slice
QualifyingKeys ==
    SelectSeq(slIn.snapshot.foreign_keys,
              LAMBDA fk : /\ fk.table \in DOMAIN slOut.tables
                          /\ fk.foreign_table \in DOMAIN slOut.tables)

\* C24: every foreign-key tuple of a returned slice has its left and its right table
\* among slice.tables, and the tuples are the snapshot's foreign keys whose two tables
\* are in the slice, one tuple per such snapshot entry, in the snapshot's order.
C24_SliceForeignKeysWithinTables ==
    slOut.status = "returned" =>
        /\ \A i \in 1..Len(slOut.foreign_keys) :
              /\ slOut.foreign_keys[i][1] \in DOMAIN slOut.tables
              /\ slOut.foreign_keys[i][3] \in DOMAIN slOut.tables
        /\ Len(slOut.foreign_keys) = Len(QualifyingKeys)
        /\ \A i \in 1..Len(QualifyingKeys) :
              /\ slOut.foreign_keys[i][1] = QualifyingKeys[i].table
              /\ slOut.foreign_keys[i][3] = QualifyingKeys[i].foreign_table

\* a slice that keeps two foreign keys of the snapshot and leaves one out
C24_Witness ==
    /\ slOut.status = "returned"
    /\ Len(slOut.foreign_keys) = 2
    /\ Len(slIn.snapshot.foreign_keys) = 3

(***************************************************************************)
(* Expiry of the cached snapshot                                           *)
(***************************************************************************)
\* C25: a snapshot stored under schema_snapshot expires after refresh_interval_s: a
\* non-refresh request whose cache lookup returns a snapshot gets one whose set_json is
\* at most refresh_interval_s old, from the remote store and from the fallback alike.
C25_CachedSnapshotExpires ==
    [][\A r \in Reqs :
          (rpc[r] = "cache_get" /\ rpc'[r] = "ranking") =>
              LET setAt == IF cacheUnavailable'
                           THEN cacheFallback.stored
                           ELSE cacheRemote.expires - RefreshIntervalS
              IN clock - setAt <= RefreshIntervalS]_vars

\* request r's _collect raises in this step
CollectFails(r) == rpc[r] = "collecting" /\ rpc'[r] = "failed"

\* C26: when _collect fails the request fails without a snapshot; the extractor's
\* snapshot and timestamp and the cache entries stay as they were and both locks are
\* free afterwards; a later request that still needs extraction starts _collect anew
\* at its second test, and the stored snapshot only ever changes when a _collect
\* returns.
C26_FailedCollectLeavesNoTrace ==
    [][/\ \A r \in Reqs :
            CollectFails(r) =>
                /\ UNCHANGED <<extSnapshot, extTimestamp, cacheRemote, cacheFallback>>
                /\ rsnap'[r] = rsnap[r]
                /\ extLock' = {}
                /\ schemaLock' = {}
       /\ \A r \in Reqs :
            (collectFailed > 0 /\ rpc[r] = "ext_recheck" /\ rpc'[r] # rpc[r]
                /\ (rrefresh[r] \/ extSnapshot = EmptySnapshot))
                => /\ rpc'[r] = "collecting"
                   /\ collectCount' = collectCount + 1
       /\ (extSnapshot' # extSnapshot \/ extTimestamp' # extTimestamp)
            => \E r \in Reqs : rpc[r] = "collecting" /\ rpc'[r] = "cache_set"]_vars

\* after a failed _collect another request is running _collect
C26_Witness ==
    /\ collectFailed >= 1
    /\ \E r, q \in Reqs :
          /\ rpc[q] = "failed"
          /\ rpc[r] = "collecting"
          /\ extSnapshot = EmptySnapshot
    /\ extLock # {} /\ schemaLock # {}

(***************************************************************************)
(* The deques of the rate limiter                                          *)
(***************************************************************************)
\* client c's call of allow takes a step / returns False in this step
StepsIn(c) == lpc'[c] # lpc[c] \/ lres'[c] # lres[c]
ReturnsFalse(c) == ~lres[c].done /\ lres'[c].done /\ ~lres'[c].ok

\* C27: every key's deque holds at most max_requests_per_minute timestamps in
\* non-decreasing order; the step in which allow returns False leaves every deque as it
\* is and no deque is longer than when the call took the lock; a deque changes only in
\* a step of a call for its own key.
C27_DequesBoundedOrderedPerKey ==
    /\ [](\A k \in Keys :
            /\ Len(requests[k]) <= MaxRequestsPerMinute
            /\ \A i \in 1..(Len(requests[k]) - 1) : requests[k][i] <= requests[k][i + 1])
    /\ [][/\ \A c \in Clients :
               ReturnsFalse(c) => /\ requests' = requests
                                  /\ Len(requests[lres'[c].key]) <= lres'[c].held
          /\ \A k \in Keys :
               requests'[k] # requests[k] => \E c \in Clients : StepsIn(c) /\ lkey[c] = k]_vars

\* a call was refused for a key whose deque is full and holds two different timestamps
C27_Witness ==
    \E c \in Clients :
        /\ lres[c].done /\ ~lres[c].ok
        /\ Len(requests[lres[c].key]) = MaxRequestsPerMinute
        /\ requests[lres[c].key][1] < requests[lres[c].key][MaxRequestsPerMinute]

(***************************************************************************)
(* Plans with missing entries                                              *)
(***************************************************************************)
\* the first plan object of the EXPLAIN result
GivenPlan == IF grIn.kind = "str" THEN grIn.value[2][1] ELSE grIn.value[1]

\* C29: a metric whose field is missing from the root node, or whose root node is
\* missing, is reported as plan_rows = 0, plan_width = 0, total_cost = 0, node_type = ""
\* and fires no rule; a plan object without "Plan" is allowed and the handler goes on
\* to execution.
C29_MissingPlanFieldsDefault ==
    (grOut.status = "returned" /\ grIn # ExplainError) =>
        LET has == IF GivenPlan.has_plan THEN GivenPlan.root.has ELSE {}
            m == grOut.metrics
        IN /\ "Plan Rows" \notin has =>
                 m.plan_rows = 0 /\ ~RowsRuleFires(m) /\ ~SeqScanRuleFires(m)
           /\ "Plan Width" \notin has => m.plan_width = 0
           /\ "Total Cost" \notin has => m.total_cost = 0 /\ ~CostRuleFires(m)
           /\ "Node Type" \notin has => m.node_type = "" /\ ~SeqScanRuleFires(m)
           /\ {"Plan Rows", "Total Cost"} \cap has = {} => grOut.allowed
           /\ ~GivenPlan.has_plan =>
                 /\ grOut.allowed
                 /\ AfterGuard(grOut.allowed) = "execution"

\* a plan object without "Plan" was checked and allowed
C29_Witness ==
    /\ grOut.status = "returned"
    /\ grIn # ExplainError
    /\ ~GivenPlan.has_plan
    /\ grOut.allowed

(***************************************************************************)
(* LLM client                                                              *)
(***************************************************************************)
\* C23: a call that keeps failing with LLMError makes at most `attempts` attempts,
\* `attempts` being that of reasoner_retry_config for a call of the reasoner and of
\* synthesizer_retry_config for a call of the synthesizer; the LLMError propagates
\* after exactly that many failed attempts, and the waits between attempts grow
\* exponentially within their limits.
C23_AttemptsPerCallerConfig ==
    /\ llRun.attempts <= llIn.cfg[llIn.caller]
    /\ (llRun.status = "raised" /\ llRun.error = "LLMError")
          => llRun.attempts = llIn.cfg[llIn.caller]
    /\ \A i \in 1..Len(llRun.waits) :
          /\ llRun.waits[i] \in WaitMin..WaitMax
          /\ i > 1 => llRun.waits[i] >= llRun.waits[i - 1]

(***************************************************************************)
(* SQL generator                                                           *)
(***************************************************************************)
\* the tables the FROM clause introduces, in order: the base, then each join's target
Introduced == <<gnOut.base>> \o [i \in 1..Len(gnOut.joins) |-> gnOut.joins[i].right_table]

\* C28: in a generated statement every table of the select list and of a JOIN ... ON
\* condition is introduced in the FROM clause, as the base table or as the target of a
\* LEFT JOIN, and no table is introduced twice.
C28_ReferencedTablesIntroducedOnce ==
    gnOut.status = "returned" =>
        /\ \A i \in 1..Len(gnOut.select_cols) :
              gnOut.select_cols = Star \/ gnOut.select_cols[i].table \in Members(Introduced)
        /\ \A i \in 1..Len(gnOut.joins) :
              /\ gnOut.joins[i].left_table \in Members(Introduced)
              /\ gnOut.joins[i].right_table \in Members(Introduced)
        /\ \A i, j \in 1..Len(Introduced) : i # j => Introduced[i] # Introduced[j]
====
